---------------------------- MODULE Spec2Model ----------------------------
(***************************************************************************)
(* A model of the design-storm core of rossv/designstorms                  *)
(* (src/reference files/design_storm.py): the temporal-pattern resampling  *)
(* engine (_storm_from_table, _beta_pdf, beta_curve, _user_pdf,            *)
(* build_storm) over the module-level registries PROPORTION_TABLES and     *)
(* BETA_PRESETS.                                                           *)
(*                                                                         *)
(* Numbers.  Python floats are modelled by exact rationals [n, d, e],      *)
(* standing for (n / d) * 10^e with e a multiple of 12, kept in one        *)
(* canonical form so that equal values are equal records.  The exponent    *)
(* lets the program's constant 1e-12 and quotients by it live beside       *)
(* ordinary magnitudes inside TLC's 32-bit integers.  Rounding of binary   *)
(* floating point is not modelled: every statement below is about exact    *)
(* arithmetic on finite values.  The only irrational operation of the      *)
(* program, exp(p * log x) with a half-integer p, is modelled by a square  *)
(* root truncated to three decimals.                                       *)
(***************************************************************************)
EXTENDS Integers, Sequences, FiniteSets, TLC

(***************************************************************************)
(* Float arithmetic                                                        *)
(***************************************************************************)
Abs(x) == IF x < 0 THEN -x ELSE x

Sign(x) == IF x < 0 THEN -1 ELSE IF x = 0 THEN 0 ELSE 1

IntMin(a, b) == IF a < b THEN a ELSE b

IntMax(a, b) == IF a < b THEN b ELSE a

RECURSIVE GCD(_, _)
GCD(a, b) == IF b = 0 THEN a ELSE GCD(b, a % b)

\* The floats 0.0 and 1.0.
Zero == [n |-> 0, d |-> 1, e |-> 0]

One == [n |-> 1, d |-> 1, e |-> 0]

\* A fraction is a pair <<numerator, denominator>>.  DownBy is p / 10^6 for
\* g the part of 10^6 that cancels against the numerator.
DownBy(p, g) == <<p[1] \div g, p[2] * (1000000 \div g)>>

DownMillion(p) == DownBy(p, GCD(Abs(p[1]), 1000000))

\* p * 10^6, for g the part of 10^6 that cancels against the denominator.
UpBy(p, g) == <<p[1] * (1000000 \div g), p[2] \div g>>

UpMillion(p) == UpBy(p, GCD(p[2], 1000000))

\* p * 10^(12 * steps).
RECURSIVE Lift(_, _)
Lift(p, steps) == IF steps = 0 THEN p ELSE Lift(UpMillion(UpMillion(p)), steps - 1)

\* The canonical record of (n / d) * 10^e for e a multiple of 12: d > 0,
\* gcd(n, d) = 1 and 10^-6 <= |n / d| < 10^6; zero is Zero.  Ordinary
\* magnitudes have e = 0 and are plain fractions.
RECURSIVE Canon(_, _, _)
CanonPair(p, e) == Canon(p[1], p[2], e)

CanonBy(n, d, e, g) ==
  IF g > 1 THEN Canon(n \div g, d \div g, e)
  ELSE IF Abs(n) \div d >= 1000000
  THEN CanonPair(DownMillion(DownMillion(<<n, d>>)), e + 12)
  ELSE IF Abs(n) <= (d - 1) \div 1000000
  THEN CanonPair(UpMillion(UpMillion(<<n, d>>)), e - 12)
  ELSE [n |-> n, d |-> d, e |-> e]

Canon(n, d, e) ==
  IF n = 0 THEN Zero
  ELSE IF d < 0 THEN Canon(-n, -d, e)
  ELSE CanonBy(n, d, e, GCD(Abs(n), d))

\* The float n / d.
Q(n, d) == Canon(n, d, 0)

\* The float of an integer k, |k| < 10^6.
F(k) == [n |-> k, d |-> 1, e |-> 0]

\* The float literal 1e-12.
Tiny == [n |-> 1, d |-> 1, e |-> -12]

RNeg(a) == [a EXCEPT !.n = -a.n]

\* abs(a).
RAbs(a) == IF a.n < 0 THEN RNeg(a) ELSE a

RSign(a) == Sign(a.n)

\* a * b, g1 and g2 the factors that cancel crosswise.
MulBy(a, b, g1, g2) ==
  Canon((a.n \div g1) * (b.n \div g2), (a.d \div g2) * (b.d \div g1), a.e + b.e)

RMul(a, b) == MulBy(a, b, GCD(Abs(a.n), b.d), GCD(Abs(b.n), a.d))

\* a / b for b # 0, g1 and g2 the factors that cancel.
DivBy(a, b, g1, g2) ==
  Canon(Sign(b.n) * (a.n \div g1) * (b.d \div g2),
        (a.d \div g2) * (Abs(b.n) \div g1), a.e - b.e)

RDiv(a, b) == DivBy(a, b, GCD(Abs(a.n), Abs(b.n)), GCD(a.d, b.d))

\* (p + q) * 10^e for two fractions, g the factor their denominators share.
SumBy(p, q, e, g) ==
  Canon(p[1] * (q[2] \div g) + q[1] * (p[2] \div g), (p[2] \div g) * q[2], e)

SumPairs(p, q, e) == SumBy(p, q, e, GCD(p[2], q[2]))

\* a + b: both mantissas are brought to the lower of the two exponents.
RAdd(a, b) ==
  IF a.n = 0 THEN b
  ELSE IF b.n = 0 THEN a
  ELSE SumPairs(Lift(<<a.n, a.d>>, (a.e - IntMin(a.e, b.e)) \div 12),
                Lift(<<b.n, b.d>>, (b.e - IntMin(a.e, b.e)) \div 12),
                IntMin(a.e, b.e))

RSub(a, b) == RAdd(a, RNeg(b))

\* a < b for a, b > 0: by the exponents when they differ (canonical mantissas
\* lie in one million-fold range), else by the fractions.
RLtPos(a, b) ==
  IF a.e # b.e THEN a.e < b.e
  ELSE LET g == GCD(a.d, b.d) IN a.n * (b.d \div g) < b.n * (a.d \div g)

RLt(a, b) ==
  IF RSign(a) # RSign(b) THEN RSign(a) < RSign(b)
  ELSE IF RSign(a) = 0 THEN FALSE
  ELSE IF RSign(a) > 0 THEN RLtPos(a, b)
  ELSE RLtPos(RNeg(b), RNeg(a))

RLe(a, b) == ~RLt(b, a)

RMax(a, b) == IF RLt(a, b) THEN b ELSE a

\* The integer ceiling of a fraction with a positive denominator.
CeilDiv(p) == -((-p[1]) \div p[2])

\* math.ceil of a float, as an integer.
RCeil(a) ==
  IF a.e < 0 THEN (IF a.n > 0 THEN 1 ELSE 0)
  ELSE CeilDiv(Lift(<<a.n, a.d>>, a.e \div 12))

\* math.floor of a float, as an integer.
RFloor(a) == -RCeil(RNeg(a))

(***************************************************************************)
(* numpy array operations.  Arrays are functions on 1..len; At reads one   *)
(* with the program's 0-based index.                                       *)
(***************************************************************************)
At(a, i) == a[i + 1]

\* The array f[1..n] as a tuple of its values.
Array(f, n) == SubSeq(f, 1, n)

\* Linspace with a fault: the endpoint is left out.
LinspaceNoEndpoint(num) == [i \in 1..num |-> Q(i - 1, num)]

\* np.linspace(0, 1, num): 0 + i * (1 / (num - 1)), the last value set to 1.
Linspace(num) == [i \in 1..num |-> IF num = 1 THEN Zero ELSE Q(i - 1, num - 1)]

\* np.linspace(0, 1, num, endpoint=False).
LinspaceOpen(num) == [i \in 1..num |-> Q(i - 1, num)]

\* np.diff of an array of len values.
Diff(a, len) == Array([i \in 1..(len - 1) |-> RSub(a[i + 1], a[i])], len - 1)

\* The sum of the first k values; a.sum() is SumTo(a, len).
RECURSIVE SumTo(_, _)
SumTo(a, k) == IF k = 0 THEN Zero ELSE RAdd(SumTo(a, k - 1), a[k])

\* np.cumsum.
CumSum(a, len) == Array([i \in 1..len |-> SumTo(a, i)], len)

\* np.full(n, v).
Full(n, v) == Array([i \in 1..n |-> v], n)

\* np.interp's search for the interval of key in xp (numpy's
\* binary_search_with_guess): len when key lies right of xp, -1 when left of
\* it, a linear scan for up to four knots and a bisection above that.  The
\* guess numpy carries from one key to the next only shortens the bisection.
RECURSIVE LinearSearch(_, _, _, _)
LinearSearch(key, arr, len, i) ==
  IF i < len /\ RLe(At(arr, i), key) THEN LinearSearch(key, arr, len, i + 1) ELSE i - 1

RECURSIVE Bisect(_, _, _, _)
Bisect(key, arr, imin, imax) ==
  IF imin < imax
  THEN LET imid == imin + ((imax - imin) \div 2) IN
       IF RLe(At(arr, imid), key) THEN Bisect(key, arr, imid + 1, imax)
       ELSE Bisect(key, arr, imin, imid)
  ELSE imin - 1

BinarySearch(key, arr, len) ==
  IF RLt(At(arr, len - 1), key) THEN len
  ELSE IF RLt(key, At(arr, 0)) THEN -1
  ELSE IF len <= 4 THEN LinearSearch(key, arr, len, 1)
  ELSE Bisect(key, arr, 0, len)

\* The value of np.interp at x, given the interval j the search found.
InterpIn(x, xp, fp, len, j) ==
  IF j = -1 THEN At(fp, 0)
  ELSE IF j >= len - 1 THEN At(fp, len - 1)
  ELSE IF At(xp, j) = x THEN At(fp, j)
  ELSE RAdd(RMul(RDiv(RSub(At(fp, j + 1), At(fp, j)), RSub(At(xp, j + 1), At(xp, j))),
                 RSub(x, At(xp, j))),
            At(fp, j))

\* np.interp(x, xp, fp) at one point x, xp and fp of len values.
InterpAt(x, xp, fp, len) ==
  IF len = 1 THEN At(fp, 0) ELSE InterpIn(x, xp, fp, len, BinarySearch(x, xp, len))

Interp(xs, nx, xp, fp, len) == Array([k \in 1..nx |-> InterpAt(xs[k], xp, fp, len)], nx)

\* ArgMaxFrom with a fault: of equal maxima the last one is taken.
RECURSIVE ArgMaxLastFrom(_, _, _, _)
ArgMaxLastFrom(a, len, i, best) ==
  IF i >= len THEN best
  ELSE ArgMaxLastFrom(a, len, i + 1, IF RLe(At(a, best), At(a, i)) THEN i ELSE best)

\* np.argmax: the lowest index (0-based) holding the maximum of a[1..len].
RECURSIVE ArgMaxFrom(_, _, _, _)
ArgMaxFrom(a, len, i, best) ==
  IF i >= len THEN best
  ELSE ArgMaxFrom(a, len, i + 1, IF RLt(At(a, best), At(a, i)) THEN i ELSE best)

ArgMax(a, len) == ArgMaxFrom(a, len, 1, 0)

\* np.roll(a, shift) for 0 <= shift < len.
Roll(a, len, shift) == Array([i \in 1..len |-> At(a, (i - 1 - shift) % len)], len)

\* a.max() of a non-empty array.
RECURSIVE MaxTo(_, _)
MaxTo(a, k) == IF k = 1 THEN a[1] ELSE RMax(MaxTo(a, k - 1), a[k])

(***************************************************************************)
(* The registries, as the module sets them.  A curve value v stands for    *)
(* v / 10000: the tables are written to four decimals.                     *)
(***************************************************************************)
\* PROPORTION_TABLES["scs_type_i"], 241 values, in ten-thousandths.
TABLE_SCS_TYPE_I ==
  << 0, 17, 35, 52, 70, 87, 105, 122, 139, 157, 174, 192,
     210, 227, 245, 262, 280, 297, 315, 332, 350, 368, 386, 404,
     423, 442, 461, 480, 500, 520, 540, 561, 582, 603, 625, 647,
     669, 691, 714, 737, 760, 784, 807, 831, 855, 878, 902, 926,
     951, 975, 1000, 1024, 1049, 1073, 1098, 1123, 1148, 1174, 1199, 1225,
     1250, 1276, 1303, 1332, 1361, 1391, 1423, 1456, 1489, 1524, 1560, 1597,
     1633, 1671, 1708, 1746, 1784, 1823, 1861, 1901, 1940, 1982, 2027, 2077,
     2132, 2190, 2252, 2318, 2388, 2462, 2540, 2623, 2714, 2812, 2917, 3030,
     3194, 3454, 3878, 4632, 5150, 5322, 5476, 5612, 5730, 5830, 5919, 6003,
     6083, 6159, 6230, 6298, 6365, 6430, 6493, 6555, 6615, 6674, 6731, 6786,
     6840, 6892, 6944, 6995, 7044, 7092, 7140, 7186, 7232, 7276, 7320, 7362,
     7404, 7444, 7484, 7523, 7560, 7596, 7632, 7667, 7700, 7733, 7766, 7798,
     7830, 7862, 7894, 7926, 7958, 7989, 8020, 8051, 8082, 8112, 8142, 8173,
     8202, 8232, 8262, 8291, 8320, 8349, 8378, 8406, 8434, 8462, 8490, 8518,
     8546, 8573, 8600, 8627, 8654, 8680, 8706, 8733, 8758, 8784, 8810, 8835,
     8860, 8885, 8910, 8934, 8958, 8982, 9006, 9030, 9054, 9077, 9100, 9123,
     9146, 9168, 9190, 9212, 9234, 9256, 9278, 9299, 9320, 9341, 9362, 9382,
     9402, 9423, 9442, 9462, 9482, 9501, 9520, 9539, 9558, 9576, 9594, 9613,
     9630, 9648, 9666, 9683, 9700, 9717, 9734, 9750, 9766, 9783, 9798, 9814,
     9830, 9845, 9860, 9875, 9890, 9904, 9918, 9933, 9946, 9960, 9974, 9987,
     10000 >>

\* PROPORTION_TABLES["scs_type_ia"], 49 values, in ten-thousandths.
TABLE_SCS_TYPE_IA ==
  << 0, 100, 220, 360, 510, 670, 830, 990, 1160, 1350, 1560, 1790,
     2040, 2330, 2680, 3100, 4250, 4800, 5200, 5500, 5770, 6010, 6230, 6440,
     6640, 6830, 7010, 7190, 7360, 7530, 7690, 7850, 8000, 8150, 8300, 8440,
     8580, 8710, 8840, 8960, 9080, 9200, 9320, 9440, 9560, 9670, 9780, 9890,
     10000 >>

\* PROPORTION_TABLES["scs_type_ii"], 241 values, in ten-thousandths.
TABLE_SCS_TYPE_II ==
  << 0, 10, 20, 30, 41, 51, 62, 72, 83, 94, 105, 116,
     127, 138, 150, 161, 173, 184, 196, 208, 220, 232, 244, 257,
     269, 281, 294, 306, 319, 332, 345, 358, 371, 384, 398, 411,
     425, 439, 452, 466, 480, 494, 508, 523, 538, 553, 568, 583,
     598, 614, 630, 646, 662, 679, 696, 712, 730, 747, 764, 782,
     800, 818, 836, 855, 874, 892, 912, 931, 950, 970, 990, 1010,
     1030, 1051, 1072, 1093, 1114, 1135, 1156, 1178, 1200, 1222, 1246, 1270,
     1296, 1322, 1350, 1379, 1408, 1438, 1470, 1502, 1534, 1566, 1598, 1630,
     1663, 1697, 1733, 1771, 1810, 1851, 1895, 1941, 1989, 2040, 2094, 2152,
     2214, 2280, 2350, 2427, 2513, 2609, 2715, 2830, 3068, 3544, 4308, 5679,
     6630, 6820, 6986, 7130, 7252, 7350, 7434, 7514, 7588, 7656, 7720, 7780,
     7836, 7890, 7942, 7990, 8036, 8080, 8122, 8162, 8200, 8237, 8273, 8308,
     8342, 8376, 8409, 8442, 8474, 8505, 8535, 8565, 8594, 8622, 8649, 8676,
     8702, 8728, 8753, 8777, 8800, 8823, 8845, 8868, 8890, 8912, 8934, 8955,
     8976, 8997, 9018, 9038, 9058, 9078, 9097, 9117, 9136, 9155, 9173, 9192,
     9210, 9228, 9245, 9263, 9280, 9297, 9313, 9330, 9346, 9362, 9377, 9393,
     9408, 9423, 9438, 9452, 9466, 9480, 9493, 9507, 9520, 9533, 9546, 9559,
     9572, 9584, 9597, 9610, 9622, 9635, 9647, 9660, 9672, 9685, 9697, 9709,
     9722, 9734, 9746, 9758, 9770, 9782, 9794, 9806, 9818, 9829, 9841, 9853,
     9864, 9876, 9887, 9899, 9910, 9922, 9933, 9944, 9956, 9967, 9978, 9989,
     10000 >>

\* PROPORTION_TABLES["scs_type_iii"], 241 values, in ten-thousandths.
TABLE_SCS_TYPE_III ==
  << 0, 10, 20, 30, 40, 50, 60, 70, 80, 90, 100, 110,
     120, 130, 140, 150, 160, 170, 180, 190, 200, 210, 220, 231,
     241, 252, 263, 274, 285, 296, 308, 319, 331, 343, 355, 367,
     379, 392, 404, 417, 430, 443, 456, 470, 483, 497, 511, 525,
     539, 553, 567, 582, 597, 612, 627, 642, 657, 673, 688, 704,
     720, 736, 753, 770, 788, 806, 825, 844, 864, 884, 905, 926,
     948, 970, 993, 1016, 1040, 1064, 1089, 1114, 1140, 1167, 1194, 1223,
     1253, 1284, 1317, 1350, 1385, 1421, 1458, 1496, 1535, 1575, 1617, 1659,
     1703, 1748, 1794, 1842, 1890, 1940, 1993, 2048, 2105, 2165, 2227, 2292,
     2359, 2428, 2500, 2578, 2664, 2760, 2866, 2980, 3143, 3394, 3733, 4166,
     5000, 5840, 6267, 6606, 6857, 7020, 7134, 7240, 7336, 7422, 7500, 7572,
     7641, 7708, 7773, 7835, 7895, 7952, 8007, 8060, 8110, 8158, 8206, 8252,
     8297, 8341, 8383, 8425, 8465, 8504, 8543, 8579, 8615, 8650, 8683, 8716,
     8747, 8777, 8806, 8833, 8860, 8886, 8911, 8936, 8960, 8984, 9007, 9030,
     9052, 9074, 9095, 9116, 9136, 9156, 9175, 9194, 9212, 9230, 9247, 9264,
     9280, 9296, 9312, 9327, 9343, 9358, 9373, 9388, 9403, 9418, 9433, 9447,
     9461, 9475, 9489, 9503, 9517, 9530, 9544, 9557, 9570, 9583, 9596, 9609,
     9621, 9634, 9646, 9658, 9670, 9682, 9694, 9706, 9718, 9729, 9741, 9752,
     9764, 9775, 9786, 9797, 9808, 9818, 9829, 9839, 9850, 9860, 9870, 9880,
     9890, 9900, 9909, 9919, 9928, 9938, 9947, 9956, 9965, 9974, 9983, 9991,
     10000 >>

\* PROPORTION_TABLES as constructed at import.
InitialTables ==
  [name \in {"scs_type_i", "scs_type_ia", "scs_type_ii", "scs_type_iii"} |->
     CASE name = "scs_type_i" -> TABLE_SCS_TYPE_I
       [] name = "scs_type_ia" -> TABLE_SCS_TYPE_IA
       [] name = "scs_type_ii" -> TABLE_SCS_TYPE_II
       [] OTHER -> TABLE_SCS_TYPE_III]

\* BETA_PRESETS as constructed at import: name |-> <<alpha, beta>>.
InitialPresets ==
  [name \in {"scs_type_i", "scs_type_ia", "scs_type_ii", "scs_type_iii",
             "huff_q1", "huff_q2", "huff_q3", "huff_q4", "user"} |->
     CASE name = "scs_type_i" -> <<F(2), F(5)>>
       [] name = "scs_type_ia" -> <<F(2), F(6)>>
       [] name = "scs_type_ii" -> <<Q(7, 2), F(6)>>
       [] name = "scs_type_iii" -> <<F(5), F(2)>>
       [] name = "huff_q1" -> <<Q(3, 2), F(5)>>
       [] name = "huff_q2" -> <<F(2), F(3)>>
       [] name = "huff_q3" -> <<F(3), F(2)>>
       [] name = "huff_q4" -> <<F(5), Q(3, 2)>>
       [] OTHER -> <<F(1), F(1)>>]


(***************************************************************************)
(* What a call yields: a returned value, or the exception it raised.       *)
(***************************************************************************)
Return(v) == [status |-> "ok", msg |-> "", value |-> v]

Raise(exc, text) == [status |-> exc, msg |-> text, value |-> <<>>]

\* np.isfinite.  The model's floats are all finite (no inf or nan is among
\* the inputs and no operation below divides by zero).
IsFinite(x) == x.d > 0

(***************************************************************************)
(* _storm_from_table                                                       *)
(***************************************************************************)
\* np.asarray(list(table), dtype=float) of a table in ten-thousandths: a
\* fresh array, the table itself is left as it is.
AsFloatArray(table) == [i \in 1..Len(table) |-> Q(table[i], 10000)]

\* NonDecreasing with a fault: only the two ends are compared.
EndsInOrder(table) == table[Len(table)] - table[1] >= 0

\* np.all(np.diff(arr) >= 0), on the ten-thousandths (the floats differ as
\* the ten-thousandths do).
NonDecreasing(table) == \A i \in 1..(Len(table) - 1) : table[i + 1] - table[i] >= 0

\* The array the increments are resampled from: the table, or the 0..1 ramp
\* of its length when its last value is 0.
RampIfZero(arr, size) == IF At(arr, size - 1) = Zero THEN Linspace(size) ELSE arr

\* norm = arr / arr[-1].
NormByLast(arr, size) == [i \in 1..size |-> RDiv(arr[i], At(arr, size - 1))]

\* The n raw increments of the normalized curve on the n+1-point grid.
ResampleIncrements(arr, size, n) ==
  Diff(Interp(Linspace(n + 1), n + 1, Linspace(size), NormByLast(arr, size), size), n + 1)

\* ScaleBySum with a fault: the normalized increments are not scaled.
NormalizedOnly(inc, n, depth, s) ==
  IF ~IsFinite(s) \/ RLe(s, Zero)
  THEN Full(n, RDiv(depth, F(IntMax(n, 1))))
  ELSE Array([i \in 1..n |-> RDiv(inc[i], s)], n)

\* ScaleBySum with a fault: the fallback gives every bin the whole depth.
ScaleOrFullDepth(inc, n, depth, s) ==
  IF ~IsFinite(s) \/ RLe(s, Zero)
  THEN Full(n, depth)
  ELSE Array([i \in 1..n |-> RMul(RDiv(inc[i], s), depth)], n)

\* The increments scaled to depth, or the uniform split when their sum s is
\* not a positive finite number.
ScaleBySum(inc, n, depth, s) ==
  IF ~IsFinite(s) \/ RLe(s, Zero)
  THEN Full(n, RDiv(depth, F(IntMax(n, 1))))
  ELSE Array([i \in 1..n |-> RMul(RDiv(inc[i], s), depth)], n)

ScaleToDepth(inc, n, depth) == ScaleBySum(inc, n, depth, SumTo(inc, n))

storm_from_table(depth, n, table) ==
  IF Len(table) < 2
  THEN Raise("ValueError", "Dimensionless table must have at least two values")
  ELSE IF ~NonDecreasing(table)
  THEN Raise("ValueError", "Dimensionless table must be non-decreasing")
  ELSE Return(ScaleToDepth(
         ResampleIncrements(RampIfZero(AsFloatArray(table), Len(table)), Len(table), n),
         n, depth))

(***************************************************************************)
(* _beta_pdf and beta_curve                                                *)
(***************************************************************************)
RECURSIVE IntPow(_, _)
IntPow(b, k) ==
  IF k = 0 THEN One
  ELSE IF k < 0 THEN RDiv(One, IntPow(b, -k))
  ELSE RMul(b, IntPow(b, k - 1))

\* The largest r in lo..hi with r * r <= m.
RECURSIVE ISqrtIn(_, _, _)
ISqrtIn(m, lo, hi) ==
  IF lo >= hi THEN lo
  ELSE LET mid == (lo + hi + 1) \div 2 IN
       IF mid * mid <= m THEN ISqrtIn(m, mid, hi) ELSE ISqrtIn(m, lo, mid - 1)

\* The square root of b in 0..1, truncated to three decimals.
RSqrt(b) == Q(ISqrtIn(RFloor(RMul(b, Q(1000000, 1))), 0, 1000), 1000)

\* b to the power of k2 halves.
HalfPow(b, k2) ==
  IF k2 % 2 = 0 THEN IntPow(b, k2 \div 2)
  ELSE RMul(IntPow(b, (k2 - 1) \div 2), RSqrt(b))

\* np.exp(p * np.log(b)) for 0 < b <= 1 and p a multiple of 1/2.  A float64
\* exp yields 0.0 for every argument below -745.14, and log b <= b - 1, so
\* the power is 0.0 once p * (1 - b) reaches 746.
ExpLog(p, b) ==
  IF RLe(F(746), RMul(p, RSub(One, b))) THEN Zero
  ELSE HalfPow(b, (2 * p.n) \div p.d)

\* np.clip(x, lo, hi).
Clip(x, lo, hi) == IF RLt(x, lo) THEN lo ELSE IF RLt(hi, x) THEN hi ELSE x

\* The mid-bin sample points (i + 0.5) / n.
MidBins(n) == [i \in 1..n |-> RAdd(LinspaceOpen(n)[i], RDiv(Q(1, 2), F(n)))]

\* exp(logpdf) at sample point x.
BetaDensity(x, alpha, beta) ==
  RMul(ExpLog(RSub(alpha, One), Clip(x, Tiny, One)),
       ExpLog(RSub(beta, One), Clip(RSub(One, x), Tiny, One)))

\* NormalizeBySum with a fault: a positive finite sum is not divided out.
DensityUnscaled(pdf, n, s) ==
  IF ~IsFinite(s) \/ RLe(s, Zero)
  THEN Full(n, RDiv(One, F(n)))
  ELSE Array(pdf, n)

\* pdf / s, or the uniform array when the sum s is not a positive finite
\* number.
NormalizeBySum(pdf, n, s) ==
  IF ~IsFinite(s) \/ RLe(s, Zero)
  THEN Full(n, RDiv(One, F(n)))
  ELSE Array([i \in 1..n |-> RDiv(pdf[i], s)], n)

Normalize(pdf, n) == NormalizeBySum(pdf, n, SumTo(pdf, n))

beta_pdf(n, alpha, beta) ==
  Normalize(Array([i \in 1..n |-> BetaDensity(MidBins(n)[i], alpha, beta)], n), n)

\* The pdf rolled so that its mode moves shift bins to the right.
RollBy(pdf, n, shift) == IF shift # 0 THEN Roll(pdf, n, shift) ELSE pdf

\* The pdf with its mode moved to bin peak.
RollToPeak(pdf, n, peak) ==
  IF n <= 0 THEN pdf ELSE RollBy(pdf, n, (peak - ArgMax(pdf, n)) % n)

beta_curve(n, alpha, beta, peak) == RollToPeak(beta_pdf(n, alpha, beta), n, peak)

(***************************************************************************)
(* _user_pdf                                                               *)
(***************************************************************************)
\* The custom curve files of the environment, as pd.read_csv reads them:
\* path |-> the first column t and the second column c.
FILES ==
  [path \in {"ramp.csv", "minutes.csv", "dip.csv", "half.csv", "flat.csv"} |->
     CASE path = "ramp.csv" ->
            [t |-> <<Zero, Q(1, 2), One>>, c |-> <<Zero, Q(1, 4), One>>]
       [] path = "minutes.csv" ->
            [t |-> <<Zero, F(30), F(60)>>, c |-> <<Zero, Q(3, 2), F(2)>>]
       [] path = "dip.csv" ->
            [t |-> <<Zero, Q(1, 2), One>>, c |-> <<Zero, Q(4, 5), Q(3, 5)>>]
       [] path = "half.csv" ->
            [t |-> <<Zero, Q(1, 4), Q(1, 2)>>, c |-> <<Zero, Q(1, 4), One>>]
       [] OTHER ->
            [t |-> <<Zero, Q(1, 2), One>>, c |-> <<Zero, Zero, Zero>>]]

\* pd.read_csv(path).
ReadCsv(path) ==
  IF path \in DOMAIN FILES THEN Return(FILES[path])
  ELSE Raise("FileNotFoundError", path)

\* A column divided by its maximum m when that exceeds 1, else as it is.
DivideIfAbove(col, len, m) ==
  IF RLt(One, m) THEN Array([i \in 1..len |-> RDiv(col[i], m)], len) ELSE col

NormalizeColumn(col, len) == DivideIfAbove(col, len, MaxTo(col, len))

\* pdf / s, or the uniform array when the sum s is not a positive finite
\* number.
NormalizeUserBySum(pdf, n, s) ==
  IF RLe(s, Zero) \/ ~IsFinite(s)
  THEN Full(n, RDiv(One, F(n)))
  ELSE Array([i \in 1..n |-> RDiv(pdf[i], s)], n)

NormalizeUser(pdf, n) == NormalizeUserBySum(pdf, n, SumTo(pdf, n))

\* PdfOfColumns with a fault: the time column is divided by the maximum of
\* the cumulative column.
PdfOfColumnsByOneMax(n, t, c, len) ==
  NormalizeUser(Diff(Interp(Linspace(n + 1), n + 1, DivideIfAbove(t, len, MaxTo(c, len)),
                            NormalizeColumn(c, len), len),
                     n + 1),
                n)

\* The pdf of the two columns t and c of len rows.
PdfOfColumns(n, t, c, len) ==
  NormalizeUser(Diff(Interp(Linspace(n + 1), n + 1, NormalizeColumn(t, len),
                            NormalizeColumn(c, len), len),
                     n + 1),
                n)

\* The pdf of the frame read, or the exception the read raised.
PdfOfFrame(n, df) ==
  IF df.status # "ok" THEN df
  ELSE Return(PdfOfColumns(n, df.value.t, df.value.c, Len(df.value.t)))

user_pdf(n, path) == PdfOfFrame(n, ReadCsv(path))

(***************************************************************************)
(* build_storm                                                             *)
(***************************************************************************)
\* An Optional argument: <<>> is None, <<v>> holds v.
None == <<>>

Some(v) == <<v>>

\* BinCount with a fault: the quotient is rounded down.
BinCountFloor(duration_hr, timestep_min) ==
  IntMax(1, RFloor(RDiv(RMul(duration_hr, F(60)), timestep_min)))

\* n = max(1, int(math.ceil(duration_hr * 60.0 / timestep_min))).
BinCount(duration_hr, timestep_min) ==
  IntMax(1, RCeil(RDiv(RMul(duration_hr, F(60)), timestep_min)))

\* PathMissing with a fault: only None counts as missing.
PathIsNone(custom_curve_path) == custom_curve_path = <<>>

\* `not custom_curve_path`: None and the empty path are falsy.
PathMissing(custom_curve_path) == custom_curve_path = None \/ custom_curve_path[1] = ""

\* Scale with a fault: the pdf is returned as it is.
Unscaled(depth, pdf, n) == Array(pdf, n)

\* depth * pdf.
Scale(depth, pdf, n) == Array([i \in 1..n |-> RMul(depth, pdf[i])], n)

\* depth * pdf of the pdf a call yielded, or the exception it raised.
ScaleResult(depth, pdf, n) ==
  IF pdf.status # "ok" THEN pdf ELSE Return(Scale(depth, pdf.value, n))

\* PatternSource with a fault: the presets are looked up before 'user'.
PresetBeforeUser(distribution, tables, presets) ==
  IF distribution \in DOMAIN tables THEN "table"
  ELSE IF distribution \in DOMAIN presets THEN "beta"
  ELSE IF distribution = "user" THEN "user"
  ELSE "unknown"

\* The pattern source build_storm uses for a name: "table", "user", "beta",
\* or "unknown" when it fails.
PatternSource(distribution, tables, presets) ==
  IF distribution \in DOMAIN tables THEN "table"
  ELSE IF distribution = "user" THEN "user"
  ELSE IF distribution \notin DOMAIN presets THEN "unknown"
  ELSE "beta"

\* The incremental depths of the pattern from the given source, or the
\* exception raised.
IncrementalFrom(source, depth, n, distribution, custom_curve_path, tables, presets) ==
  IF source = "table" THEN storm_from_table(depth, n, tables[distribution])
  ELSE IF source = "user"
  THEN IF PathMissing(custom_curve_path)
       THEN Raise("ValueError", "Custom curve path required for 'user' distribution")
       ELSE ScaleResult(depth, user_pdf(n, custom_curve_path[1]), n)
  ELSE IF source = "unknown"
  THEN Raise("ValueError", "Unknown distribution: " \o distribution)
  ELSE Return(Scale(depth, beta_pdf(n, presets[distribution][1], presets[distribution][2]), n))

Incremental(depth, n, distribution, custom_curve_path, tables, presets) ==
  IncrementalFrom(PatternSource(distribution, tables, presets), depth, n, distribution,
                  custom_curve_path, tables, presets)

\* Intensities with a fault: no single-bin case.
IntensitiesByTimestep(incremental, n, depth, duration_hr, timestep_min) ==
  Array([i \in 1..n |-> RDiv(incremental[i], RDiv(timestep_min, F(60)))], n)

\* Intensities with a fault: each bin is taken to last duration / n hours,
\* which shortens a final bin that extends past the duration.
IntensitiesByDuration(incremental, n, depth, duration_hr, timestep_min) ==
  IF n = 1 THEN <<RDiv(depth, RMax(duration_hr, Tiny))>>
  ELSE Array([i \in 1..n |-> RDiv(incremental[i], RDiv(duration_hr, F(n)))], n)

\* Intensities (in/hr), with the single-bin edge case.
Intensities(incremental, n, depth, duration_hr, timestep_min) ==
  IF n = 1 THEN <<RDiv(depth, RMax(duration_hr, Tiny))>>
  ELSE Array([i \in 1..n |-> RDiv(incremental[i], RDiv(timestep_min, F(60)))], n)

\* Minutes with a fault: the bins are counted from 1.
MinutesFromOne(n, timestep_min) == Array([i \in 1..n |-> RMul(F(i), timestep_min)], n)

\* np.arange(n) * timestep_min.
Minutes(n, timestep_min) == Array([i \in 1..n |-> RMul(F(i - 1), timestep_min)], n)

\* start + timedelta(minutes=m), in minutes since the model's epoch.
Timestamps(start, minutes, n) == Array([i \in 1..n |-> RAdd(start, minutes[i])], n)

\* The DataFrame build_storm returns, minutes its time_min column.
FrameAt(minutes, incremental, n, depth, duration_hr, timestep_min, start) ==
  [columns |-> <<"time_min", "intensity_in_hr", "volume_in", "cumulative_in">>
                 \o (IF start # None THEN <<"timestamp">> ELSE <<>>),
   time_min |-> minutes,
   intensity_in_hr |-> Intensities(incremental, n, depth, duration_hr, timestep_min),
   volume_in |-> incremental,
   cumulative_in |-> CumSum(incremental, n),
   timestamp |-> IF start # None THEN Timestamps(start[1], minutes, n) ELSE <<>>]

Frame(incremental, n, depth, duration_hr, timestep_min, start) ==
  FrameAt(Minutes(n, timestep_min), incremental, n, depth, duration_hr, timestep_min, start)

\* NotPositive with a fault: the timestep is not checked.
DurationNotPositive(duration_hr, timestep_min) == RLe(duration_hr, Zero)

\* `duration_hr <= 0 or timestep_min <= 0`.
NotPositive(duration_hr, timestep_min) == RLe(duration_hr, Zero) \/ RLe(timestep_min, Zero)

\* The frame of the increments a pattern yielded, or the exception it raised.
FrameResult(inc, n, depth, duration_hr, timestep_min, start) ==
  IF inc.status # "ok" THEN inc
  ELSE Return(Frame(inc.value, n, depth, duration_hr, timestep_min, start))

\* build_storm past its validation, with n bins.
BuildBins(n, depth, duration_hr, timestep_min, distribution, custom_curve_path, start, tables, presets) ==
  FrameResult(Incremental(depth, n, distribution, custom_curve_path, tables, presets),
              n, depth, duration_hr, timestep_min, start)

\* build_storm with a fault: a peak passed along with a Beta preset moves the
\* mode of the pattern to that bin.
build_storm_peaked(depth, duration_hr, timestep_min, distribution, peak, custom_curve_path, start, tables, presets) ==
  IF NotPositive(duration_hr, timestep_min)
  THEN Raise("ValueError", "Duration and timestep must be positive")
  ELSE IF peak # None /\ PatternSource(distribution, tables, presets) = "beta"
  THEN FrameResult(
         Return(Scale(depth,
                      beta_curve(BinCount(duration_hr, timestep_min), presets[distribution][1],
                                 presets[distribution][2], RFloor(peak[1])),
                      BinCount(duration_hr, timestep_min))),
         BinCount(duration_hr, timestep_min), depth, duration_hr, timestep_min, start)
  ELSE BuildBins(BinCount(duration_hr, timestep_min), depth, duration_hr, timestep_min,
                 distribution, custom_curve_path, start, tables, presets)

build_storm(depth, duration_hr, timestep_min, distribution, peak, custom_curve_path, start, tables, presets) ==
  IF NotPositive(duration_hr, timestep_min)
  THEN Raise("ValueError", "Duration and timestep must be positive")
  ELSE BuildBins(BinCount(duration_hr, timestep_min), depth, duration_hr, timestep_min,
                 distribution, custom_curve_path, start, tables, presets)


(***************************************************************************)
(* The NOAA helpers.  A text is a string, read character by character; the *)
(* regular expressions of the program are the scanners below.              *)
(***************************************************************************)
\* The character of s at position i (from 1), "" outside of s.
Ch(s, i) == IF 1 <= i /\ i <= Len(s) THEN SubSeq(s, i, i) ELSE ""

\* s.find(sub) from position i on: the position found, 0 when there is none.
RECURSIVE Find(_, _, _)
Find(s, sub, i) ==
  IF i + Len(sub) - 1 > Len(s) THEN 0
  ELSE IF SubSeq(s, i, i + Len(sub) - 1) = sub THEN i
  ELSE Find(s, sub, i + 1)

\* \d of a regular expression, and the characters that \b takes for a word.
Digits == {"0", "1", "2", "3", "4", "5", "6", "7", "8", "9"}

WordChars ==
  Digits \cup {"_"}
    \cup {Ch("abcdefghijklmnopqrstuvwxyzABCDEFGHIJKLMNOPQRSTUVWXYZ", k) : k \in 1..52}

\* The first position from i on whose character is not one of chars: the end
\* of a greedy [chars]* that starts at i.
RECURSIVE Span(_, _, _)
Span(s, i, chars) == IF Ch(s, i) \in chars THEN Span(s, i + 1, chars) ELSE i

\* str.strip().
RECURSIVE Strip(_)
Strip(s) ==
  IF Ch(s, 1) \in {" ", "\t"} THEN Strip(Tail(s))
  ELSE IF Ch(s, Len(s)) \in {" ", "\t"} THEN Strip(SubSeq(s, 1, Len(s) - 1))
  ELSE s

\* str.rstrip(":").
RECURSIVE RStripColons(_)
RStripColons(s) ==
  IF Ch(s, Len(s)) = ":" THEN RStripColons(SubSeq(s, 1, Len(s) - 1)) ELSE s

\* [ln.strip()] if ln.strip() else [], for one line.
NonBlank(ln) == IF Strip(ln) = "" THEN <<>> ELSE <<Strip(ln)>>

\* [ln.strip() for ln in txt.splitlines() if ln.strip()].
RECURSIVE Lines(_)
Lines(txt) ==
  IF txt = "" THEN <<>>
  ELSE IF Find(txt, "\n", 1) = 0 THEN NonBlank(txt)
  ELSE NonBlank(SubSeq(txt, 1, Find(txt, "\n", 1) - 1))
         \o Lines(SubSeq(txt, Find(txt, "\n", 1) + 1, Len(txt)))

\* next((ln for ln in lines if "ARI (years)" in ln), None).
RECURSIVE HeaderOf(_)
HeaderOf(lines) ==
  IF Len(lines) = 0 THEN None
  ELSE IF Find(Head(lines), "ARI (years)", 1) > 0 THEN Some(Head(lines))
  ELSE HeaderOf(Tail(lines))

\* s.split(sub)[-1]: what follows the last sub in s.
RECURSIVE AfterLast(_, _)
AfterLast(s, sub) ==
  IF Find(s, sub, 1) = 0 THEN s
  ELSE AfterLast(SubSeq(s, Find(s, sub, 1) + Len(sub), Len(s)), sub)

\* re.findall(r"\b\d+\b", s) from position i on: the runs of digits that no
\* word character touches.
RECURSIVE IntTokens(_, _)
IntTokens(s, i) ==
  IF i > Len(s) THEN <<>>
  ELSE IF /\ Ch(s, i) \in Digits
          /\ Ch(s, i - 1) \notin WordChars
          /\ Ch(s, Span(s, i, Digits)) \notin WordChars
  THEN <<SubSeq(s, i, Span(s, i, Digits) - 1)>> \o IntTokens(s, Span(s, i, Digits))
  ELSE IntTokens(s, i + 1)

\* int(s) of a string of digits.
RECURSIVE StrToInt(_)
StrToInt(s) ==
  IF s = "" THEN 0
  ELSE 10 * StrToInt(SubSeq(s, 1, Len(s) - 1)) + (Find("0123456789", Ch(s, Len(s)), 1) - 1)

\* str(k) of an integer.
RECURSIVE IntToStr(_)
IntToStr(k) ==
  IF k < 0 THEN "-" \o IntToStr(-k)
  ELSE IF k < 10 THEN Ch("0123456789", k + 1)
  ELSE IntToStr(k \div 10) \o Ch("0123456789", (k % 10) + 1)

\* re.match(r"^([^:]+):\s*(.*)$", ln): the stripped label before the first
\* colon and the rest after it, or None.
LabelAndRest(ln) ==
  IF Find(ln, ":", 1) < 2 THEN None
  ELSE Some([label |-> Strip(SubSeq(ln, 1, Find(ln, ":", 1) - 1)),
             rest |-> SubSeq(ln, Span(ln, Find(ln, ":", 1) + 1, {" ", "\t"}), Len(ln))])

\* s.lower().
RECURSIVE Lower(_)
Lower(s) ==
  IF s = "" THEN ""
  ELSE (IF Find("ABCDEFGHIJKLMNOPQRSTUVWXYZ", Head(s), 1) > 0
        THEN Ch("abcdefghijklmnopqrstuvwxyz", Find("ABCDEFGHIJKLMNOPQRSTUVWXYZ", Head(s), 1))
        ELSE Head(s)) \o Lower(Tail(s))

\* _DURATION_RE.match(s), the number starting at i1 and ending before i3:
\* the separator \s*[- ]\s* ends before i4, and the unit is what is left
\* without an ending colon and the blanks before it.
DurationAt(s, i1, i3, i4, unit) ==
  IF /\ Ch(s, i1) \in Digits
     /\ i4 > i3
     /\ Find(s, "-", i3) \notin i3..(i4 - 1) \/ Find(s, "-", Find(s, "-", i3) + 1) \notin i3..(i4 - 1)
     /\ unit \in {"min", "minute", "minutes", "hr", "hour", "hours", "day", "days"}
  THEN Some([num |-> SubSeq(s, i1, i3 - 1), unit |-> unit])
  ELSE None

\* The end of \d+(?:\.\d+)? or of \d*\.\d+, whichever the text allows, for
\* digits that end before d.
FractionEnd(s, d) ==
  IF Ch(s, d) = "." /\ Ch(s, d + 1) \in Digits THEN Span(s, d + 2, Digits) ELSE d

\* s without one ending colon and the blanks before it, in lower case.
UnitOf(s) == Lower(Strip(IF Ch(s, Len(s)) = ":" THEN SubSeq(s, 1, Len(s) - 1) ELSE s))

DurationFrom(s, i1, i3) ==
  DurationAt(s, i1, i3, Span(s, i3, {" ", "\t", "-"}),
             UnitOf(SubSeq(s, Span(s, i3, {" ", "\t", "-"}), Len(s))))

DurationMatch(s) ==
  DurationFrom(s, Span(s, 1, {" ", "\t"}),
               FractionEnd(s, Span(s, Span(s, 1, {" ", "\t"}), Digits)))

\* The end of a number that starts at p and whose mantissa ends before q,
\* with (?:[eE][-+]?\d+)? taken when the text allows it.
NumberEnd(s, p, q) ==
  IF /\ q > p
     /\ Ch(s, q) \in {"e", "E"}
     /\ Ch(s, IF Ch(s, q + 1) \in {"-", "+"} THEN q + 2 ELSE q + 1) \in Digits
  THEN Span(s, q + 2, Digits)
  ELSE q

\* re.findall(r"[-+]?(?:\d*\.\d+|\d+)(?:[eE][-+]?\d+)?", s) from position i on.
RECURSIVE NumTokens(_, _)
NumTokens(s, i) ==
  IF i > Len(s) THEN <<>>
  ELSE LET p == IF Ch(s, i) \in {"-", "+"} THEN i + 1 ELSE i
           q == NumberEnd(s, p, FractionEnd(s, Span(s, p, Digits)))
       IN IF q > p THEN <<SubSeq(s, i, q - 1)>> \o NumTokens(s, q)
          ELSE NumTokens(s, i + 1)

\* float("nan"), np.nan.
NaN == [n |-> 0, d |-> 0, e |-> 0]

\* float(tok) of a token NumTokens finds: the digits of the mantissa as an
\* integer, times ten to the exponent less the number of decimals.
ToFloat(tok) ==
  LET body == IF Ch(tok, 1) \in {"-", "+"} THEN Tail(tok) ELSE tok
      m == FractionEnd(body, Span(body, 1, Digits))
      dot == Find(SubSeq(body, 1, m - 1), ".", 1)
      digits == IF dot = 0 THEN SubSeq(body, 1, m - 1)
                ELSE SubSeq(body, 1, dot - 1) \o SubSeq(body, dot + 1, m - 1)
      ex == IF m > Len(body) THEN "" ELSE SubSeq(body, m + 1, Len(body))
      exp == IF ex = "" THEN 0
             ELSE IF Ch(ex, 1) = "-" THEN -StrToInt(Tail(ex))
             ELSE StrToInt(IF Ch(ex, 1) = "+" THEN Tail(ex) ELSE ex)
      v == RMul(Q(StrToInt(digits), 1),
                IntPow(F(10), exp - (IF dot = 0 THEN 0 ELSE m - 1 - dot)))
  IN IF Ch(tok, 1) = "-" THEN RNeg(v) ELSE v

\* RowOf with a fault: the tokens are taken as they come, neither padded nor
\* cut to the columns.
RowOfTokens(nums, ncols) == Array([k \in 1..Len(nums) |-> ToFloat(nums[k])], Len(nums))

\* nums[: len(cols)] + [np.nan] * max(0, len(cols) - len(nums)), each value
\* through float().
RowOf(nums, ncols) ==
  Array([k \in 1..ncols |-> IF k <= Len(nums) THEN ToFloat(nums[k]) ELSE NaN], ncols)

\* The loop over the lines: the label and the row of every line that has a
\* duration label before its first colon.  label.rstrip(":") is the label,
\* which holds no colon.
RECURSIVE DurationRows(_, _)
DurationRows(lines, ncols) ==
  IF Len(lines) = 0 THEN <<>>
  ELSE LET m == LabelAndRest(Head(lines)) IN
       IF m = None \/ DurationMatch(m[1].label) = None
       THEN DurationRows(Tail(lines), ncols)
       ELSE <<[label |-> m[1].label, row |-> RowOf(NumTokens(m[1].rest, 1), ncols)]>>
              \o DurationRows(Tail(lines), ncols)

\* FrameOf with a fault: an empty frame is returned when no row matched.
FrameOfAnyRows(rows, cols) ==
  Some([index |-> Array([k \in 1..Len(rows) |-> rows[k].label], Len(rows)),
        columns |-> cols,
        data |-> Array([k \in 1..Len(rows) |-> rows[k].row], Len(rows))])

\* pd.DataFrame(data, index=idx, columns=cols), or None without rows.
FrameOf(rows, cols) ==
  IF Len(rows) = 0 THEN None
  ELSE Some([index |-> Array([k \in 1..Len(rows) |-> rows[k].label], Len(rows)),
             columns |-> cols,
             data |-> Array([k \in 1..Len(rows) |-> rows[k].row], Len(rows))])

\* The frame of the lines under the columns cols, or None without columns.
FrameUnder(lines, cols) ==
  IF Len(cols) = 0 THEN None ELSE FrameOf(DurationRows(lines, Len(cols)), cols)

\* [str(int(x)) for x in aris if x.isdigit()].
ColumnsOf(aris) ==
  Array([k \in 1..Len(aris) |-> IntToStr(StrToInt(aris[k]))], Len(aris))

\* The frame of the lines given the header line found, or None without one.
FrameWith(lines, header) ==
  IF header = None THEN None
  ELSE FrameUnder(lines, ColumnsOf(IntTokens(AfterLast(header[1], "ARI (years)"), 1)))

parse_noaa_text_to_df(txt) == FrameWith(Lines(txt), HeaderOf(Lines(txt)))

\* _fetch_noaa_csv given what urlopen and read yield: the parsed text, and
\* None for every exception.
fetch_noaa_csv(direct) ==
  IF direct.status = "ok" THEN Return(parse_noaa_text_to_df(direct.value))
  ELSE Return(None)

\* fetch_noaa_table with a fault: a pfdf download that failed with an
\* exception of requests is followed by the direct fetch.
fetch_noaa_table_retrying(pfdf, direct) ==
  IF pfdf = None THEN [ret |-> fetch_noaa_csv(direct), net |-> <<"urllib">>]
  ELSE IF pfdf[1].status = "RequestException"
  THEN [ret |-> fetch_noaa_csv(direct), net |-> <<"pfdf", "urllib">>]
  ELSE IF pfdf[1].status # "ok" THEN [ret |-> pfdf[1], net |-> <<"pfdf">>]
  ELSE IF parse_noaa_text_to_df(pfdf[1].value) # None
  THEN [ret |-> Return(parse_noaa_text_to_df(pfdf[1].value)), net |-> <<"pfdf">>]
  ELSE [ret |-> fetch_noaa_csv(direct), net |-> <<"pfdf", "urllib">>]

\* fetch_noaa_table given pfdf (None when the library is not installed, else
\* what its download and read_text yield) and what the direct fetch yields:
\* the value returned or the exception raised, and the transports used.
fetch_noaa_table(pfdf, direct) ==
  IF pfdf = None THEN [ret |-> fetch_noaa_csv(direct), net |-> <<"urllib">>]
  ELSE IF pfdf[1].status = "RequestException"
  THEN [ret |-> Return(None), net |-> <<"pfdf">>]
  ELSE IF pfdf[1].status # "ok" THEN [ret |-> pfdf[1], net |-> <<"pfdf">>]
  ELSE IF parse_noaa_text_to_df(pfdf[1].value) # None
  THEN [ret |-> Return(parse_noaa_text_to_df(pfdf[1].value)), net |-> <<"pfdf">>]
  ELSE [ret |-> fetch_noaa_csv(direct), net |-> <<"pfdf", "urllib">>]

\* label_to_minutes with a fault: the number of the label is taken as it is,
\* whatever the unit.
label_to_number(label) ==
  LET m == DurationMatch(RStripColons(Strip(label))) IN
  IF m = None THEN NaN ELSE ToFloat(m[1].num)

\* _label_to_minutes: NaN for a label that is no duration.
label_to_minutes(label) ==
  LET m == DurationMatch(RStripColons(Strip(label))) IN
  IF m = None THEN NaN
  ELSE RMul(ToFloat(m[1].num),
            IF Ch(m[1].unit, 1) = "m" THEN One
            ELSE IF Ch(m[1].unit, 1) = "h" THEN F(60) ELSE F(1440))

\* Nearer with a fault: a label that does not parse is taken to be at no
\* distance.
NearerUnparsed(a, b, target) ==
  \/ ~IsFinite(a) /\ IsFinite(b) /\ RLt(Zero, RAbs(RSub(b, target)))
  \/ IsFinite(a) /\ IsFinite(b) /\ RLt(RAbs(RSub(a, target)), RAbs(RSub(b, target)))

\* abs(a - target) < abs(b - target), with inf for a NaN.
Nearer(a, b, target) ==
  /\ IsFinite(a)
  /\ ~IsFinite(b) \/ RLt(RAbs(RSub(a, target)), RAbs(RSub(b, target)))

\* diffs.index(min(diffs)) from row i on, best the first nearest row before
\* it; rows count from 1.
RECURSIVE NearestFrom(_, _, _, _)
NearestFrom(index, target, i, best) ==
  IF i > Len(index) THEN best
  ELSE NearestFrom(index, target, i + 1,
                   IF Nearer(label_to_minutes(index[i]), label_to_minutes(index[best]),
                             target)
                   THEN i ELSE best)

nearest_row_index(index, target) == NearestFrom(index, target, 2, 1)

\* Round with a fault: the fraction is cut off.
Truncate(a) == RFloor(a)

\* round(a) of a finite float: to the nearest integer, a half to the even
\* one.
Round(a) ==
  IF RSub(a, F(RFloor(a))) = Q(1, 2)
  THEN (IF RFloor(a) % 2 = 0 THEN RFloor(a) ELSE RFloor(a) + 1)
  ELSE RFloor(RAdd(a, Q(1, 2)))

\* float(df.iloc[row][key]) for the columns at that hold the key: one cell,
\* and a TypeError for the Series that several columns of one name give.
CellAt(df, row, at) ==
  IF Cardinality(at) > 1
  THEN Raise("TypeError", "cannot convert the series to <class 'float'>")
  ELSE Return(df.data[row][CHOOSE k \in at : TRUE])

\* val if math.isfinite(val) else None.
FiniteOrNone(cell) ==
  IF cell.status # "ok" THEN cell
  ELSE IF IsFinite(cell.value) THEN Return(Some(cell.value)) ELSE Return(None)

\* fetch_noaa_depth from the frame on, at the columns that hold ari_key.
DepthUnder(df, try_minutes, at) ==
  IF at = {} THEN Return(None)
  ELSE FiniteOrNone(CellAt(df, nearest_row_index(df.index, try_minutes), at))

\* fetch_noaa_depth given what fetch_noaa_table yields.
fetch_noaa_depth(table, duration_hr, ari) ==
  IF table.status # "ok" THEN table
  ELSE IF table.value = None THEN Return(None)
  ELSE DepthUnder(table.value[1], RMul(duration_hr, F(60)),
                  {k \in 1..Len(table.value[1].columns) :
                     table.value[1].columns[k] = IntToStr(Round(ari))})

(***************************************************************************)
(* The state machine: the two registries (module-level, mutable Python     *)
(* objects), and one call at a time made by a client of the module.        *)
(***************************************************************************)
VARIABLES
  PROPORTION_TABLES,  \* name |-> dimensionless cumulative curve
  BETA_PRESETS,       \* name |-> <<alpha, beta>>
  pc,                 \* "idle": no call made; "done": the last call has ended
  call,               \* the last call: the function and its arguments
  ret,                \* what the last call yielded
  seen,               \* history: an earlier build_storm call, what it yielded,
                      \* and whether a different call has ended since; or None
  net                 \* the transports the last call has fetched from, in order

vars == <<PROPORTION_TABLES, BETA_PRESETS, pc, call, ret, seen, net>>

\* Bounds of the inputs.
MaxHalfHours == 3

MaxCurveLen == 4

MaxDirectBins == 4

MaxShapeBins == 5

MaxTextLines == 3

MaxRows == 3

\* The arguments the client draws from.  No depth is refused: a negative one
\* and 0 are among them.
Depths == {F(-1), Zero, One, F(2), Q(5, 2)}

\* Durations in half hours, one of them negative, and 1e-13 hours.
DurationsHr == {Q(k, 2) : k \in -1..MaxHalfHours} \cup {Canon(1, 10, -12)}

TimestepsMin == {F(-15), Zero, F(15), F(25), F(60)}

Distributions ==
  {"scs_type_i", "scs_type_ia", "scs_type_ii", "scs_type_iii",
   "huff_q1", "huff_q2", "huff_q3", "huff_q4", "user", "triangular"}

Paths == {None, Some(""), Some("ramp.csv"), Some("minutes.csv"), Some("dip.csv"),
          Some("flat.csv"), Some("missing.csv")}

\* The paths a client passes along with a name: any of them with "user", and
\* with another name none or one that is not used.
PathsFor(distribution) ==
  IF distribution = "user" THEN Paths ELSE {None, Some("ramp.csv")}

Peaks == {None, Some(F(5))}

\* No start, or noon of the first day, in minutes since the model's epoch.
Starts == {None, Some(F(720))}

CurveValues == {0, 5000, 10000}

RECURSIVE CurvesOfLen(_)
CurvesOfLen(k) ==
  IF k = 0 THEN {<<>>}
  ELSE {Append(c, v) : c \in CurvesOfLen(k - 1), v \in CurveValues}

Curves == UNION {CurvesOfLen(k) : k \in 0..MaxCurveLen}

\* Shape parameters: halves and integers, and one large enough for every
\* density sample to underflow.
Shapes == {Q(1, 2), One, Q(3, 2), F(2), F(3), F(100000)}

\* The shapes a client passes with n bins: beyond MaxShapeBins only the
\* integer ones, whose densities need no square roots.
ShapesFor(n) == IF n <= MaxShapeBins THEN Shapes ELSE {One, F(2), F(3), F(100000)}

\* The lines a NOAA text is made of: a metadata line, the header of the
\* service, a header behind a duration label with a zero-padded year, the
\* bare marker, duration rows with fewer and more numbers than years, a
\* label without separator, and a blank line.
LinePool ==
  {"Latitude: 40.44",
   "by duration for ARI (years): 2 5 10 25",
   "6-hr: ARI (years) 02 5",
   "ARI (years)",
   "6-hr: 1.2 1.8 2.3 3.0",
   "60-min: 0.9",
   " 2 HR : -1, +2.5e1, .5, 7, 8 ",
   "6hr: 1 2 3 4",
   "  "}

\* The texts a client passes, as the lines they are made of.
TextLines == UNION {[1..k -> LinePool] : k \in 0..MaxTextLines}

\* The text of the lines, each ended by a newline.
RECURSIVE JoinLines(_)
JoinLines(lines) ==
  IF Len(lines) = 0 THEN "" ELSE Head(lines) \o "\n" \o JoinLines(Tail(lines))

\* What the NOAA service may answer: a header (that of the service, one
\* that names a year twice, or none but a metadata line) and up to MaxRows
\* duration rows, one of them without numbers.
ResponseLines ==
  {<<h>> \o rows :
     h \in {"by duration for ARI (years): 2 5 10 25", "ARI (years): 2 02 5",
            "Latitude: 40.44"},
     rows \in UNION {[1..k -> {"60-min:", "2-hr: 1.1 1.5 1.9 2.4",
                               "100-day: 9.0 9.5 10.0 11.5"}] : k \in 0..MaxRows}}

\* What a transport yields: a text, or an exception.
Yield(status, lines) ==
  IF status = "ok" THEN Return(JoinLines(lines)) @@ [lines |-> lines]
  ELSE Raise(status, "") @@ [lines |-> lines]

\* The pfdf library: not installed; or a download that fails with an
\* exception of requests or with another one, or that yields a file without
\* or with a table.
PfdfOutcomes ==
  {None, Some(Yield("RequestException", <<>>)), Some(Yield("OSError", <<>>)),
   Some(Yield("ok", <<"Latitude: 40.44">>)),
   Some(Yield("ok", <<"by duration for ARI (years): 2 5 10 25", "6-hr: 1.2 1.8 2.3 3.0">>))}

\* What the direct fetch yields: a failure of urlopen or read, or any answer
\* (the answers matter when pfdf is not there or yields no table).
DirectFor(pfdf) ==
  IF pfdf = None \/ pfdf = Some(Yield("ok", <<"Latitude: 40.44">>))
  THEN {Yield("ok", l) : l \in ResponseLines} \cup {Yield("URLError", <<>>)}
  ELSE {Yield("URLError", <<>>)}

\* The labels a client passes to _label_to_minutes: each unit, singular and
\* plural, in either case, with a hyphen, a blank or both before it; labels
\* ending in colons; labels without a separator or with two hyphens; and
\* labels that are no duration.
Labels ==
  {"5-min", "30 minutes", "2-hr", "1.5 hour", "2-day", "3 DAYS", "12 - Hours :",
   "6-hr::", "6hr", "30min", "6 -- hr", "2-week", "Latitude", ""}

\* The row labels of the frames a client passes to _nearest_row_index, and
\* the minutes asked for.
Indexes ==
  UNION {[1..k -> {"60-min", "2-hr", "1-day", "6hr", "Latitude"}] : k \in 1..MaxRows}

TargetMinutes == {F(60), F(90), F(6000)}

NoCall == [fn |-> "none"]

NoResult == [status |-> "none", msg |-> "", value |-> <<>>]

Init ==
  /\ PROPORTION_TABLES = InitialTables
  /\ BETA_PRESETS = InitialPresets
  /\ pc = "idle"
  /\ call = NoCall
  /\ ret = NoResult
  /\ seen = None
  /\ net = <<>>

\* The history once the call c has ended: it notes a call that differs from
\* the one it holds.
SeenAfter(c) ==
  IF seen # None /\ seen[1].call # c THEN Some([seen[1] EXCEPT !.others = TRUE])
  ELSE seen

\* TableAfterResample with a fault: the resampled length is written back.
TableTruncated(table, depth, n) == SubSeq(table, 1, IntMin(Len(table), n + 1))

\* The table object after _storm_from_table has read it: the function works
\* on its own copy (np.asarray(list(table))) and writes to nothing else.
TableAfterResample(table, depth, n) == table

\* The registry after a build_storm call with this name.
TablesAfterBuild(tables, presets, distribution, depth, duration_hr, timestep_min) ==
  IF ~NotPositive(duration_hr, timestep_min)
     /\ PatternSource(distribution, tables, presets) = "table"
  THEN [tables EXCEPT ![distribution] =
          TableAfterResample(@, depth, BinCount(duration_hr, timestep_min))]
  ELSE tables

\* The call record of a build_storm call.
BuildCall(depth, duration_hr, timestep_min, distribution, peak, custom_curve_path, start) ==
  [fn |-> "build_storm", depth |-> depth, duration_hr |-> duration_hr,
   timestep_min |-> timestep_min, distribution |-> distribution, peak |-> peak,
   custom_curve_path |-> custom_curve_path, start |-> start]

\* A client calls build_storm.
BuildStorm ==
  /\ pc = "idle"
  /\ \E depth \in Depths, duration_hr \in DurationsHr, timestep_min \in TimestepsMin,
        distribution \in Distributions, peak \in Peaks, start \in Starts :
     \E custom_curve_path \in PathsFor(distribution) :
       /\ call' = BuildCall(depth, duration_hr, timestep_min, distribution, peak,
                            custom_curve_path, start)
       /\ ret' = build_storm(depth, duration_hr, timestep_min, distribution, peak,
                             custom_curve_path, start, PROPORTION_TABLES, BETA_PRESETS)
       /\ PROPORTION_TABLES' = TablesAfterBuild(PROPORTION_TABLES, BETA_PRESETS,
                                 distribution, depth, duration_hr, timestep_min)
  /\ pc' = "done"
  /\ seen' = SeenAfter(call')
  /\ UNCHANGED <<BETA_PRESETS, net>>

\* A client calls _storm_from_table with a curve of its own.
StormFromTable ==
  /\ pc = "idle"
  /\ \E depth \in Depths, n \in 1..MaxDirectBins, table \in Curves :
       /\ call' = [fn |-> "_storm_from_table", depth |-> depth, n |-> n, table |-> table]
       /\ ret' = storm_from_table(depth, n, table)
  /\ pc' = "done"
  /\ seen' = SeenAfter(call')
  /\ UNCHANGED <<PROPORTION_TABLES, BETA_PRESETS, net>>

\* A client calls _storm_from_table with a registered curve.
StormFromRegistered ==
  /\ pc = "idle"
  /\ \E depth \in Depths, n \in 1..MaxDirectBins, name \in DOMAIN PROPORTION_TABLES :
       /\ call' = [fn |-> "_storm_from_table", depth |-> depth, n |-> n,
                   table |-> PROPORTION_TABLES[name]]
       /\ ret' = storm_from_table(depth, n, PROPORTION_TABLES[name])
       /\ PROPORTION_TABLES' = [PROPORTION_TABLES EXCEPT ![name] =
                                  TableAfterResample(@, depth, n)]
  /\ pc' = "done"
  /\ seen' = SeenAfter(call')
  /\ UNCHANGED <<BETA_PRESETS, net>>

\* A client calls _beta_pdf.
BetaPdf ==
  /\ pc = "idle"
  /\ \E n \in 1..MaxShapeBins \cup {10} :
     \E alpha \in ShapesFor(n), beta \in ShapesFor(n) :
       /\ call' = [fn |-> "_beta_pdf", n |-> n, alpha |-> alpha, beta |-> beta]
       /\ ret' = Return(beta_pdf(n, alpha, beta))
  /\ pc' = "done"
  /\ seen' = SeenAfter(call')
  /\ UNCHANGED <<PROPORTION_TABLES, BETA_PRESETS, net>>

\* A client calls beta_curve.
BetaCurve ==
  /\ pc = "idle"
  /\ \E n \in 1..MaxShapeBins \cup {8}, peak \in -1..MaxShapeBins :
     \E alpha \in ShapesFor(n), beta \in ShapesFor(n) :
       /\ call' = [fn |-> "beta_curve", n |-> n, alpha |-> alpha, beta |-> beta,
                   peak |-> peak]
       /\ ret' = Return(beta_curve(n, alpha, beta, peak))
  /\ pc' = "done"
  /\ seen' = SeenAfter(call')
  /\ UNCHANGED <<PROPORTION_TABLES, BETA_PRESETS, net>>

\* A client calls _user_pdf on a curve file, one of them not there.
UserPdf ==
  /\ pc = "idle"
  /\ \E n \in 1..MaxDirectBins, path \in DOMAIN FILES \cup {"missing.csv"} :
       /\ call' = [fn |-> "_user_pdf", n |-> n, path |-> path]
       /\ ret' = user_pdf(n, path)
  /\ pc' = "done"
  /\ seen' = SeenAfter(call')
  /\ UNCHANGED <<PROPORTION_TABLES, BETA_PRESETS, net>>

\* A client calls _parse_noaa_text_to_df.
ParseNoaaText ==
  /\ pc = "idle"
  /\ \E lines \in TextLines :
       /\ call' = [fn |-> "_parse_noaa_text_to_df", txt |-> JoinLines(lines),
                   lines |-> lines]
       /\ ret' = Return(parse_noaa_text_to_df(JoinLines(lines)))
  /\ pc' = "done"
  /\ seen' = SeenAfter(call')
  /\ UNCHANGED <<PROPORTION_TABLES, BETA_PRESETS, net>>

\* A client calls _label_to_minutes.
LabelToMinutes ==
  /\ pc = "idle"
  /\ \E label \in Labels :
       /\ call' = [fn |-> "_label_to_minutes", label |-> label]
       /\ ret' = Return(label_to_minutes(label))
  /\ pc' = "done"
  /\ seen' = SeenAfter(call')
  /\ UNCHANGED <<PROPORTION_TABLES, BETA_PRESETS, net>>

\* A client calls _nearest_row_index on a frame with the row labels index;
\* the position returned counts from 0.
NearestRowIndex ==
  /\ pc = "idle"
  /\ \E index \in Indexes, target_minutes \in TargetMinutes :
       /\ call' = [fn |-> "_nearest_row_index", index |-> index,
                   target_minutes |-> target_minutes]
       /\ ret' = Return(nearest_row_index(index, target_minutes) - 1)
  /\ pc' = "done"
  /\ seen' = SeenAfter(call')
  /\ UNCHANGED <<PROPORTION_TABLES, BETA_PRESETS, net>>

\* A client calls fetch_noaa_depth; lat and lon only name the place asked
\* for.
FetchNoaaDepth ==
  /\ pc = "idle"
  /\ \E pfdf \in PfdfOutcomes :
     \E direct \in DirectFor(pfdf) :
       \E table \in {fetch_noaa_table(pfdf, direct)} :
         \E duration_hr \in {One, Q(3, 2), F(100)}, ari \in {F(2), Q(5, 2), F(3), Q(19, 2)} :
           /\ call' = [fn |-> "fetch_noaa_depth", duration_hr |-> duration_hr, ari |-> ari,
                       pfdf |-> pfdf, direct |-> direct]
           /\ ret' = fetch_noaa_depth(table.ret, duration_hr, ari)
           /\ net' = table.net
  /\ pc' = "done"
  /\ seen' = SeenAfter(call')
  /\ UNCHANGED <<PROPORTION_TABLES, BETA_PRESETS>>

\* The client is done with the result and may call again.
Discard ==
  /\ pc = "done"
  /\ pc' = "idle"
  /\ call' = NoCall
  /\ ret' = NoResult
  /\ net' = <<>>
  /\ UNCHANGED <<PROPORTION_TABLES, BETA_PRESETS, seen>>

Next ==
  \/ BuildStorm
  \/ StormFromTable
  \/ StormFromRegistered
  \/ BetaPdf
  \/ BetaCurve
  \/ UserPdf
  \/ ParseNoaaText
  \/ LabelToMinutes
  \/ NearestRowIndex
  \/ FetchNoaaDepth
  \/ Discard

Spec == Init /\ [][Next]_vars

\* The build_storm calls the history follows: one per pattern source.
Probes ==
  {BuildCall(F(2), One, F(25), "scs_type_ii", None, None, None),
   BuildCall(F(2), One, F(25), "huff_q2", None, None, None),
   BuildCall(F(2), One, F(25), "user", None, Some("ramp.csv"), None)}

\* The history takes up the call that has just ended.
Remember ==
  /\ pc = "done"
  /\ seen = None
  /\ call \in Probes
  /\ seen' = Some([call |-> call, ret |-> ret, others |-> FALSE])
  /\ UNCHANGED <<PROPORTION_TABLES, BETA_PRESETS, pc, call, ret, net>>

NextIdem ==
  \/ BuildStorm
  \/ StormFromTable
  \/ StormFromRegistered
  \/ BetaPdf
  \/ BetaCurve
  \/ Discard
  \/ Remember

\* The pattern calls of Spec, with the history of one earlier build_storm
\* call.
SpecIdem == Init /\ [][NextIdem]_vars

(***************************************************************************)
(* Properties                                                              *)
(***************************************************************************)
\* A build_storm call has ended.
BuildDone == pc = "done" /\ call.fn = "build_storm"

\* A build_storm call has returned a series.
BuiltSeries == BuildDone /\ ret.status = "ok"

\* A build_storm call has ended whose duration and timestep are positive.
BuildValidDone ==
  BuildDone /\ RLt(Zero, call.duration_hr) /\ RLt(Zero, call.timestep_min)

\* A _storm_from_table call has ended.
ResampleDone == pc = "done" /\ call.fn = "_storm_from_table"

\* The number of bins of the series returned.
Bins == Len(ret.value.volume_in)

\* |a - b| <= 1e-9 * |b|.
WithinRelTol(a, b) == RLe(RAbs(RSub(a, b)), RMul(Canon(1, 1000000000, 0), RAbs(b)))

\* C1: the volume_in increments of every series build_storm returns for a
\* positive depth sum to depth within 1e-9 relative tolerance, whichever
\* pattern source was used and whether or not a uniform fallback was taken.
DepthConserved ==
  BuiltSeries /\ RLt(Zero, call.depth)
    => WithinRelTol(SumTo(ret.value.volume_in, Bins), call.depth)

\* A series of several bins built from a custom curve whose increments sum
\* to 0: the uniform fallback.
DepthConservedWitness ==
  /\ BuiltSeries
  /\ call.distribution = "user"
  /\ call.custom_curve_path = Some("flat.csv")
  /\ Bins = 3
  /\ ret.value.volume_in[1] = ret.value.volume_in[3]

\* The curve resampled is one of the registered ones.
OnRegisteredCurve ==
  ResampleDone /\ \E name \in DOMAIN PROPORTION_TABLES : call.table = PROPORTION_TABLES[name]

\* C2: for each registered curve, every n >= 1 and depth > 0 the increments
\* _storm_from_table returns are all >= 0, their running sum is
\* non-decreasing and its final value equals depth.
RegisteredCurveMonotone ==
  OnRegisteredCurve /\ call.n >= 1 /\ RLt(Zero, call.depth)
    => /\ ret.status = "ok"
       /\ Len(ret.value) = call.n
       /\ \A i \in 1..call.n : RLe(Zero, ret.value[i])
       /\ \A i \in 1..(call.n - 1) :
            RLe(CumSum(ret.value, call.n)[i], CumSum(ret.value, call.n)[i + 1])
       /\ CumSum(ret.value, call.n)[call.n] = call.depth

\* A registered curve resampled to several bins, the depth not 1.
RegisteredCurveWitness ==
  /\ OnRegisteredCurve
  /\ call.table = PROPORTION_TABLES["scs_type_ii"]
  /\ call.n = 3
  /\ call.depth = Q(5, 2)
  /\ ret.status = "ok"

SingleBinOverDuration ==
  BuiltSeries /\ Bins = 1
    => /\ ret.value.volume_in = <<call.depth>>
       /\ ret.value.intensity_in_hr = <<RDiv(call.depth, call.duration_hr)>>

\* C4 as amended: a series of one bin has volume_in = depth and
\* intensity_in_hr = depth / max(duration_hr, 1e-12), which is
\* depth / duration_hr for every duration of at least 1e-12 hours and never
\* depth / (timestep_min / 60) unless the two agree.
SingleBinIntensity ==
  BuiltSeries /\ Bins = 1
    => /\ ret.value.volume_in = <<call.depth>>
       /\ ret.value.intensity_in_hr = <<RDiv(call.depth, RMax(call.duration_hr, Tiny))>>
       /\ RLe(Tiny, call.duration_hr)
            => ret.value.intensity_in_hr = <<RDiv(call.depth, call.duration_hr)>>

\* A series of one bin for a duration below 1e-12 hours.
SingleBinWitness ==
  /\ BuiltSeries
  /\ Bins = 1
  /\ RLt(call.duration_hr, Tiny)
  /\ ret.value.intensity_in_hr = <<RDiv(call.depth, Tiny)>>

\* C5: build_storm fails with the validation error whenever duration_hr <= 0
\* or timestep_min <= 0, whatever the name and the path are, and returns no
\* series.
InvalidArgsRejected ==
  BuildDone /\ (RLe(call.duration_hr, Zero) \/ RLe(call.timestep_min, Zero))
    => ret = Raise("ValueError", "Duration and timestep must be positive")

\* A call with a positive duration, timestep 0, the name 'user' and no path
\* has failed on the timestep.
InvalidArgsWitness ==
  /\ BuildDone
  /\ RLt(Zero, call.duration_hr)
  /\ call.timestep_min = Zero
  /\ call.distribution = "user"
  /\ call.custom_curve_path = None
  /\ ret.status = "ValueError"

\* What build_storm yields from increments inc: the series of those
\* increments.
SeriesOf(inc) == ret.status = "ok" /\ ret.value.volume_in = inc

\* What build_storm yields from the custom-curve loader's result pdf.
FromLoader(pdf) ==
  IF pdf.status = "ok" THEN SeriesOf(Scale(call.depth, pdf.value, Len(pdf.value)))
  ELSE ret = pdf

\* C6: build_storm uses the table resampler for a name in PROPORTION_TABLES;
\* otherwise the custom-curve loader for 'user'; otherwise the Beta shaper
\* for a name in BETA_PRESETS; and fails with the unknown-distribution error
\* for any other name.
DispatchOrder ==
  BuildValidDone =>
    LET n == BinCount(call.duration_hr, call.timestep_min)
        name == call.distribution
    IN  IF name \in DOMAIN PROPORTION_TABLES
        THEN SeriesOf(storm_from_table(call.depth, n, PROPORTION_TABLES[name]).value)
        ELSE IF name = "user"
        THEN \/ call.custom_curve_path \in {None, Some("")} /\ ret.status = "ValueError"
             \/ /\ call.custom_curve_path \notin {None, Some("")}
                /\ FromLoader(user_pdf(n, call.custom_curve_path[1]))
        ELSE IF name \in DOMAIN BETA_PRESETS
        THEN SeriesOf(Scale(call.depth,
                            beta_pdf(n, BETA_PRESETS[name][1], BETA_PRESETS[name][2]), n))
        ELSE ret = Raise("ValueError", "Unknown distribution: " \o name)

\* A series built for 'user' from a curve file that differs from the uniform
\* series of the Beta(1, 1) pair registered under 'user'.
DispatchWitness ==
  /\ BuiltSeries
  /\ call.distribution = "user"
  /\ call.distribution \in DOMAIN BETA_PRESETS
  /\ Bins = 2
  /\ ret.value.volume_in[1] # ret.value.volume_in[2]

\* C7: with the name 'user' and no path (None or empty), build_storm fails
\* with the validation error about the path and returns no series.
UserNeedsPath ==
  BuildValidDone /\ call.distribution = "user"
  /\ call.custom_curve_path \in {None, Some("")}
    => ret = Raise("ValueError", "Custom curve path required for 'user' distribution")

\* A call for 'user' with the empty path has failed.
UserNeedsPathWitness ==
  /\ BuildValidDone
  /\ call.distribution = "user"
  /\ call.custom_curve_path = Some("")
  /\ ret.status = "ValueError"

Decreases(table) == \E i \in 1..(Len(table) - 1) : table[i + 1] < table[i]

\* C9: _storm_from_table fails with a validation error and returns no
\* increments whenever the curve has fewer than two values or a value smaller
\* than its predecessor.
MalformedCurveRejected ==
  ResampleDone /\ (Len(call.table) < 2 \/ Decreases(call.table))
    => ret.status = "ValueError" /\ ret.value = <<>>

\* A curve that ends above its start but dips in between has been rejected.
MalformedCurveWitness ==
  /\ ResampleDone
  /\ call.table = <<0, 10000, 5000, 10000>>
  /\ ret.status = "ValueError"

\* The curve has two equal neighbours that are neither its first nor its
\* last value.
HasPlateau(table) ==
  \E i \in 2..(Len(table) - 2) : table[i + 1] = table[i]

\* C10: a non-decreasing curve with an interior plateau is resampled to
\* finite increments, and [0, 0.5, 0.5, 1.0] resampled to 2 bins with depth
\* 1.0 yields exactly [0.5, 0.5].
PlateauResample ==
  /\ ResampleDone /\ HasPlateau(call.table) /\ ~Decreases(call.table)
       => ret.status = "ok" /\ \A i \in 1..call.n : IsFinite(ret.value[i])
  /\ ResampleDone /\ call.table = <<0, 5000, 5000, 10000>> /\ call.n = 2
     /\ call.depth = One
       => ret = Return(<<Q(1, 2), Q(1, 2)>>)

\* [0, 0.5, 0.5, 1.0] has been resampled to 2 bins with depth 1.0.
PlateauWitness ==
  /\ ResampleDone
  /\ call.table = <<0, 5000, 5000, 10000>>
  /\ call.n = 2
  /\ call.depth = One
  /\ ret.status = "ok"

\* A _beta_pdf call has ended.
BetaPdfDone == pc = "done" /\ call.fn = "_beta_pdf"

\* The sum of the raw density exp(logpdf) of the call that has ended.
RawDensitySum ==
  SumTo([i \in 1..call.n |-> BetaDensity(MidBins(call.n)[i], call.alpha, call.beta)],
        call.n)

\* The array is n values of 1/n each.
IsUniform(pdf, n) == Len(pdf) = n /\ \A i \in 1..n : pdf[i] = Q(1, n)

\* C11: _beta_pdf with positive alpha and beta returns n non-negative values
\* that sum to 1; they are 1/n each when alpha = beta = 1, and also when the
\* sum of the raw density is not a positive finite number.
BetaPdfNormalized ==
  BetaPdfDone /\ RLt(Zero, call.alpha) /\ RLt(Zero, call.beta)
    => /\ Len(ret.value) = call.n
       /\ \A i \in 1..call.n : RLe(Zero, ret.value[i])
       /\ SumTo(ret.value, call.n) = One
       /\ call.alpha = One /\ call.beta = One => IsUniform(ret.value, call.n)
       /\ ~IsFinite(RawDensitySum) \/ RLe(RawDensitySum, Zero)
            => IsUniform(ret.value, call.n)

\* alpha = beta = 1 on ten bins: every probability is 0.1.
BetaPdfUniformWitness ==
  /\ BetaPdfDone
  /\ call.n = 10
  /\ call.alpha = One
  /\ call.beta = One
  /\ \A i \in 1..10 : ret.value[i] = Q(1, 10)

\* A beta_curve call has ended.
BetaCurveDone == pc = "done" /\ call.fn = "beta_curve"

\* The lowest 0-based index that holds the maximum of a.
LowestMax(a, len) ==
  CHOOSE k \in 0..(len - 1) :
    /\ \A j \in 0..(len - 1) : RLe(At(a, j), At(a, k))
    /\ \A j \in 0..(k - 1) : RLt(At(a, j), At(a, k))

\* b is a rotated right by shift places.
IsRotation(b, a, len, shift) ==
  Len(b) = len /\ \A i \in 0..(len - 1) : At(b, (i + shift) % len) = At(a, i)

\* The result of the call that has ended is the array pdf rotated right by
\* (peak - argmax) mod n, with a maximum at index peak mod n and the sum of
\* pdf.
RotatedToPeak(pdf) ==
  /\ IsRotation(ret.value, pdf, call.n, (call.peak - LowestMax(pdf, call.n)) % call.n)
  /\ \A j \in 0..(call.n - 1) : RLe(At(ret.value, j), At(ret.value, call.peak % call.n))
  /\ SumTo(ret.value, call.n) = SumTo(pdf, call.n)

\* C12: beta_curve returns the unshifted _beta_pdf array rotated right by
\* (peak - argmax) mod n, argmax the lowest index of the maximum, so that a
\* maximum lies at index peak mod n and the sum is kept.
BetaCurveRotates ==
  BetaCurveDone => RotatedToPeak(beta_pdf(call.n, call.alpha, call.beta))

\* Eight bins with the natural peak at index 2, moved to index 5: a rotation
\* by 3.
BetaCurveWitness ==
  /\ BetaCurveDone
  /\ call.n = 8
  /\ call.peak = 5
  /\ LowestMax(beta_pdf(8, call.alpha, call.beta), 8) = 2
  /\ IsRotation(ret.value, beta_pdf(8, call.alpha, call.beta), 8, 3)
  /\ \A j \in 0..7 : j # 5 => RLt(At(ret.value, j), At(ret.value, 5))

\* A _parse_noaa_text_to_df call has ended.
ParseDone == pc = "done" /\ call.fn = "_parse_noaa_text_to_df"

\* How each line of LinePool reads: whether it holds the 'ARI (years)'
\* marker and the integer years that follow it; whether it is a 'label: rest'
\* line whose label is a duration label (a number, a hyphen or blank, a unit),
\* and then its label and the numbers of its rest.
Reading(ln) ==
  CASE ln = "by duration for ARI (years): 2 5 10 25" ->
         [marker |-> TRUE, years |-> <<"2", "5", "10", "25">>, duration |-> FALSE,
          label |-> "", numbers |-> <<>>]
    [] ln = "6-hr: ARI (years) 02 5" ->
         [marker |-> TRUE, years |-> <<"2", "5">>, duration |-> TRUE,
          label |-> "6-hr", numbers |-> <<F(2), F(5)>>]
    [] ln = "ARI (years)" ->
         [marker |-> TRUE, years |-> <<>>, duration |-> FALSE,
          label |-> "", numbers |-> <<>>]
    [] ln = "6-hr: 1.2 1.8 2.3 3.0" ->
         [marker |-> FALSE, years |-> <<>>, duration |-> TRUE,
          label |-> "6-hr", numbers |-> <<Q(6, 5), Q(9, 5), Q(23, 10), F(3)>>]
    [] ln = "60-min: 0.9" ->
         [marker |-> FALSE, years |-> <<>>, duration |-> TRUE,
          label |-> "60-min", numbers |-> <<Q(9, 10)>>]
    [] ln = " 2 HR : -1, +2.5e1, .5, 7, 8 " ->
         [marker |-> FALSE, years |-> <<>>, duration |-> TRUE,
          label |-> "2 HR", numbers |-> <<F(-1), F(25), Q(1, 2), F(7), F(8)>>]
    [] ln = "ARI (years): 2 02 5" ->
         [marker |-> TRUE, years |-> <<"2", "2", "5">>, duration |-> FALSE,
          label |-> "", numbers |-> <<>>]
    [] ln = "60-min:" ->
         [marker |-> FALSE, years |-> <<>>, duration |-> TRUE,
          label |-> "60-min", numbers |-> <<>>]
    [] ln = "2-hr: 1.1 1.5 1.9 2.4" ->
         [marker |-> FALSE, years |-> <<>>, duration |-> TRUE,
          label |-> "2-hr", numbers |-> <<Q(11, 10), Q(3, 2), Q(19, 10), Q(12, 5)>>]
    [] ln = "100-day: 9.0 9.5 10.0 11.5" ->
         [marker |-> FALSE, years |-> <<>>, duration |-> TRUE,
          label |-> "100-day", numbers |-> <<F(9), Q(19, 2), F(10), Q(23, 2)>>]
    [] OTHER ->
         [marker |-> FALSE, years |-> <<>>, duration |-> FALSE,
          label |-> "", numbers |-> <<>>]

\* The positions of the lines that hold the marker; the header line is the
\* first of them.
MarkerLines(lines) == {k \in 1..Len(lines) : Reading(lines[k]).marker}

HeaderLine(lines) == CHOOSE k \in MarkerLines(lines) : \A j \in MarkerLines(lines) : k <= j

\* The positions in text order of the duration lines, but for position skip.
DurationLines(lines, skip) ==
  SelectSeq([k \in 1..Len(lines) |-> k],
            LAMBDA k : k # skip /\ Reading(lines[k]).duration)

\* The first ncols numbers, with the missing marker where there are fewer.
Padded(numbers, ncols) ==
  [k \in 1..ncols |-> IF k <= Len(numbers) THEN numbers[k] ELSE NaN]

\* The matrix with the columns cols and one row for each of the positions at.
MatrixOf(lines, at, cols) ==
  [index |-> [j \in 1..Len(at) |-> Reading(lines[at[j]]).label],
   columns |-> cols,
   data |-> [j \in 1..Len(at) |-> Padded(Reading(lines[at[j]]).numbers, Len(cols))]]

\* C13: the matrix _parse_noaa_text_to_df returns has the integer years after
\* the marker of the header line as its columns, in order, and as its rows
\* exactly the lines with a duration label, in text order, the k-th number of
\* a line under the k-th column; a line with another label and the header
\* line itself are never rows.
ParsedRowsSkipHeader ==
  ParseDone /\ ret.value # None
    => ret.value[1] = MatrixOf(call.lines,
                               DurationLines(call.lines, HeaderLine(call.lines)),
                               Reading(call.lines[HeaderLine(call.lines)]).years)

\* What holds in place of C13: the rows are the lines with a duration label,
\* the header line among them when a duration label stands before its first
\* colon.
ParsedRowsAreDurationLines ==
  ParseDone /\ ret.value # None
    => ret.value[1] = MatrixOf(call.lines, DurationLines(call.lines, 0),
                               Reading(call.lines[HeaderLine(call.lines)]).years)

\* The header of the service, a metadata line and the row '6-hr': one row,
\* four columns, 2.3 under '10'.
ParsedExample ==
  /\ ParseDone
  /\ call.lines = <<"by duration for ARI (years): 2 5 10 25", "Latitude: 40.44",
                    "6-hr: 1.2 1.8 2.3 3.0">>
  /\ ret.value # None
  /\ ret.value[1].index = <<"6-hr">>
  /\ ret.value[1].columns = <<"2", "5", "10", "25">>
  /\ ret.value[1].data[1][3] = Q(23, 10)

\* A header line that is a row: the only line of the text, read as the row
\* '6-hr' under the years 2 and 5.
HeaderLineIsRow ==
  /\ ParseDone
  /\ call.lines = <<"6-hr: ARI (years) 02 5">>
  /\ ret.value # None
  /\ ret.value[1].index = <<"6-hr">>
  /\ ret.value[1].columns = <<"2", "5">>

\* C14: _parse_noaa_text_to_df returns None, and raises nothing, for a text
\* without a line that holds the header marker and for a text without a line
\* that has a duration label; a matrix it returns has at least one row and
\* one column.
ParseAbsentNotEmpty ==
  ParseDone
    => /\ ret.status = "ok"
       /\ MarkerLines(call.lines) = {} => ret.value = None
       /\ Len(DurationLines(call.lines, 0)) = 0 => ret.value = None
       /\ ret.value # None
            => /\ Len(ret.value[1].index) >= 1
               /\ Len(ret.value[1].columns) >= 1
               /\ Len(ret.value[1].data) = Len(ret.value[1].index)

\* A header and two lines without a duration label: no matrix.
ParseAbsentWitness ==
  /\ ParseDone
  /\ call.lines = <<"by duration for ARI (years): 2 5 10 25", "Latitude: 40.44",
                    "6hr: 1 2 3 4">>
  /\ ret = Return(None)

\* A fetch_noaa_depth call has ended.
FetchDone == pc = "done" /\ call.fn = "fetch_noaa_depth"

\* A fetch_noaa_depth call has ended that drew its text from the direct
\* fetch alone.
DirectDone == FetchDone /\ call.pfdf = None /\ call.direct.status = "ok"

\* The minutes each duration row of the service stands for.
RowMinutes(ln) ==
  CASE ln = "60-min:" -> 60
    [] ln = "2-hr: 1.1 1.5 1.9 2.4" -> 120
    [] ln = "100-day: 9.0 9.5 10.0 11.5" -> 144000

\* The decimal string of each return period asked for, rounded.
RoundedKey(ari) ==
  CASE ari = F(2) -> "2"
    [] ari = Q(5, 2) -> "2"
    [] ari = F(3) -> "3"
    [] ari = Q(19, 2) -> "10"

\* The years of the header and the duration rows of the text served.
YearsServed == Reading(call.direct.lines[1]).years

RowsServed == Tail(call.direct.lines)

\* The positions of the columns whose key is the rounded return period.
KeyColumns == {k \in 1..Len(YearsServed) : YearsServed[k] = RoundedKey(call.ari)}

\* The distance in minutes of row i from the duration asked for (hours are
\* counted in half hours here).
MinutesOff(i) ==
  Abs(RowMinutes(RowsServed[i]) - 30 * RFloor(RMul(call.duration_hr, F(2))))

\* The first of the rows nearest in minutes to the duration asked for.
NearestRow ==
  CHOOSE i \in 1..Len(RowsServed) :
    /\ \A j \in 1..Len(RowsServed) : MinutesOff(i) <= MinutesOff(j)
    /\ \A j \in 1..(i - 1) : MinutesOff(i) < MinutesOff(j)

\* The cell of row i under column k.
CellServed(i, k) == Padded(Reading(RowsServed[i]).numbers, Len(YearsServed))[k]

\* C15: fetch_noaa_depth reads its result from the row whose label, in
\* minutes, is nearest to duration_hr * 60, the first of several equally near
\* rows in table order; label text and the raw number of a label play no
\* part.
NearestRowByMinutes ==
  DirectDone /\ Len(RowsServed) > 0 /\ Cardinality(KeyColumns) = 1
    => \A k \in KeyColumns :
         ret = Return(IF IsFinite(CellServed(NearestRow, k))
                      THEN Some(CellServed(NearestRow, k)) ELSE None)

\* 90 minutes asked of the rows '100-day', '2-hr' and '60-min': the rows of
\* 120 and 60 minutes are equally near, and '2-hr', the first of them, is
\* read.
NearestRowWitness ==
  /\ DirectDone
  /\ call.duration_hr = Q(3, 2)
  /\ call.ari = F(2)
  /\ call.direct.lines = <<"by duration for ARI (years): 2 5 10 25",
                           "100-day: 9.0 9.5 10.0 11.5", "2-hr: 1.1 1.5 1.9 2.4",
                           "60-min:">>
  /\ ret = Return(Some(Q(11, 10)))

\* C16: fetch_noaa_depth reads the column whose key is the decimal string of
\* the rounded return period: without such a column the result is None,
\* whatever the neighbouring columns hold, and a value returned is the cell
\* of the selected row under that column, as it stands in the table.
ColumnByRoundedKey ==
  DirectDone /\ Len(RowsServed) > 0
    => /\ KeyColumns = {} => ret = Return(None)
       /\ ret.status = "ok" /\ ret.value # None
            => /\ Cardinality(KeyColumns) = 1
               /\ \A k \in KeyColumns : ret.value[1] = CellServed(NearestRow, k)
       /\ \A k \in KeyColumns :
            Cardinality(KeyColumns) = 1 /\ IsFinite(CellServed(NearestRow, k))
              => ret = Return(Some(CellServed(NearestRow, k)))

\* A return period of 9.5 years reads the column '10'.
ColumnWitness ==
  /\ DirectDone
  /\ call.ari = Q(19, 2)
  /\ call.direct.lines = <<"by duration for ARI (years): 2 5 10 25",
                           "2-hr: 1.1 1.5 1.9 2.4">>
  /\ ret = Return(Some(Q(19, 10)))

\* A fetch_noaa_depth call has ended whose only transport was the direct
\* fetch.
NoPfdfDone == FetchDone /\ call.pfdf = None

\* The direct fetch gave no table: it failed, or its text has no header
\* with years or no duration row.
TableAbsent ==
  \/ call.direct.status # "ok"
  \/ Len(YearsServed) = 0
  \/ Len(RowsServed) = 0

\* Every cell of the selected row under the key is the missing marker.
CellMissing ==
  KeyColumns # {} /\ \A k \in KeyColumns : ~IsFinite(CellServed(NearestRow, k))

\* C17: fetch_noaa_depth returns None and raises nothing when the table is
\* absent, when no column has the rounded return period as its key, and when
\* the selected cell is the missing marker; a value it returns is finite.
AbsentNeverRaised ==
  NoPfdfDone
    => /\ TableAbsent => ret = Return(None)
       /\ ~TableAbsent /\ KeyColumns = {} => ret = Return(None)
       /\ ~TableAbsent /\ CellMissing => ret = Return(None)
       /\ ret.status = "ok" /\ ret.value # None => IsFinite(ret.value[1])

\* What holds in place of C17: the same, with the missing cell under a key
\* that names one column only.
AbsentUnderOneKey ==
  NoPfdfDone
    => /\ TableAbsent => ret = Return(None)
       /\ ~TableAbsent /\ KeyColumns = {} => ret = Return(None)
       /\ ~TableAbsent /\ CellMissing /\ Cardinality(KeyColumns) = 1 => ret = Return(None)
       /\ ret.status = "ok" /\ ret.value # None => IsFinite(ret.value[1])

\* The header names the year 2 twice and the row selected has no numbers:
\* the cells under '2' are missing, and the call raises TypeError.
DuplicateKeyRaises ==
  /\ NoPfdfDone
  /\ call.direct.lines = <<"ARI (years): 2 02 5", "60-min:">>
  /\ call.ari = F(2)
  /\ CellMissing
  /\ ret.status = "TypeError"

\* The lines of a response hold a table: a header with years and a duration
\* row.
HasTable(lines) == Len(lines) > 1 /\ Len(Reading(lines[1]).years) > 0

\* The pfdf download or the read of its file raised.
PfdfRaised == call.pfdf # None /\ call.pfdf[1].status # "ok"

\* The call got as far as the direct fetch.
DirectReached ==
  \/ call.pfdf = None
  \/ call.pfdf[1].status = "ok" /\ ~HasTable(call.pfdf[1].lines)

\* The direct fetch raised or its response holds no table.
DirectFailed == call.direct.status # "ok" \/ ~HasTable(call.direct.lines)

\* C18: whenever the fetch fails on the pfdf transport or on the direct one,
\* by an exception or by a response without a table, the call ends with None
\* and no exception reaches the caller.
FailureGivesAbsent ==
  FetchDone /\ (PfdfRaised \/ (DirectReached /\ DirectFailed)) => ret = Return(None)

\* What holds in place of C18: the same for every failure of the direct
\* fetch, and on pfdf for the exceptions of requests only.
CaughtFailureGivesAbsent ==
  FetchDone /\ ( \/ PfdfRaised /\ call.pfdf[1].status = "RequestException"
                 \/ DirectReached /\ DirectFailed )
    => ret = Return(None)

\* The pfdf transport raised an OSError and the caller received it.
PfdfErrorPropagates ==
  /\ FetchDone
  /\ call.pfdf = Some(Yield("OSError", <<>>))
  /\ net = <<"pfdf">>
  /\ ret.status = "OSError"

Cumulative == ret.value.cumulative_in

\* cumulative_in is the running sum of volume_in and ends at depth.
RunsToDepth ==
  /\ Len(Cumulative) = Bins
  /\ \A i \in 1..Bins : Cumulative[i] = SumTo(ret.value.volume_in, i)
  /\ WithinRelTol(Cumulative[Bins], call.depth)

\* cumulative_in never falls from one bin to the next.
NeverFalls == \A i \in 1..(Bins - 1) : RLe(Cumulative[i], Cumulative[i + 1])

\* C20: in every series build_storm returns, for each of the three pattern
\* sources and for every depth, cumulative_in is the running sum of
\* volume_in, never falls from one bin to the next, and ends at depth.
CumulativeRisesToDepth == BuiltSeries => RunsToDepth /\ NeverFalls

\* What holds in place of C20: the running sum ending at depth in every
\* series, and no fall when depth is not negative and the pattern is not a
\* custom curve that falls itself.
CumulativeRunsToDepth ==
  BuiltSeries
    => /\ RunsToDepth
       /\ RLe(Zero, call.depth) /\ call.custom_curve_path # Some("dip.csv") => NeverFalls
       /\ RLe(call.depth, Zero) /\ call.custom_curve_path # Some("dip.csv")
            => \A i \in 1..(Bins - 1) : RLe(Cumulative[i + 1], Cumulative[i])

\* The custom curve 0, 0.8, 0.6 over two bins with depth 1: the increments
\* are 4/3 and -1/3, and cumulative_in falls from 4/3 to 1.
FallingCurveWitness ==
  /\ BuiltSeries
  /\ call.distribution = "user"
  /\ call.custom_curve_path = Some("dip.csv")
  /\ call.depth = One
  /\ ret.value.volume_in = <<Q(4, 3), RNeg(Q(1, 3))>>
  /\ Cumulative = <<Q(4, 3), One>>

\* A column read from a curve file falls somewhere.
Falls(col) == \E i \in 1..(Len(col) - 1) : RLt(col[i + 1], col[i])

\* The call names the 'user' distribution and a curve file whose time column
\* or cumulative column falls.
OnFallingCurve ==
  /\ call.distribution = "user"
  /\ call.custom_curve_path # None
  /\ call.custom_curve_path[1] \in DOMAIN FILES
  /\ \/ Falls(FILES[call.custom_curve_path[1]].c)
     \/ Falls(FILES[call.custom_curve_path[1]].t)

\* C21: build_storm with distribution 'user' and a custom curve whose
\* cumulative or time column is not non-decreasing fails with a validation
\* error; it returns no series, and none with a negative volume_in.
FallingCurveRejected ==
  BuildValidDone /\ OnFallingCurve
    => /\ ret.status = "ValueError"
       /\ ret.status = "ok" => \A i \in 1..Bins : RLe(Zero, ret.value.volume_in[i])

\* The curve 0, 0.8, 0.6 with depth 2: a series is returned, and one of its
\* volume_in values is negative.
NegativeVolumeWitness ==
  /\ BuiltSeries
  /\ OnFallingCurve
  /\ call.custom_curve_path = Some("dip.csv")
  /\ call.depth = F(2)
  /\ \E i \in 1..Bins : RLt(ret.value.volume_in[i], Zero)

\* The hours of one nominal bin.
BinHours == RDiv(call.timestep_min, F(60))

\* The depth each bin's intensity yields over one nominal bin.
DepthsByIntensity == [i \in 1..Bins |-> RMul(ret.value.intensity_in_hr[i], BinHours)]

\* C22: in a series of more than one bin every intensity_in_hr is the
\* bin's volume_in divided by timestep_min / 60, the last bin included, and
\* the intensities times timestep_min / 60 sum to depth.
IntensityByTimestep ==
  BuiltSeries /\ Bins > 1
    => /\ Len(ret.value.intensity_in_hr) = Bins
       /\ \A i \in 1..Bins :
            ret.value.intensity_in_hr[i] = RDiv(ret.value.volume_in[i], BinHours)
       /\ WithinRelTol(SumTo(DepthsByIntensity, Bins), call.depth)

\* Three bins of 25 minutes for one hour: the last bin extends past the
\* duration by 15 minutes and its intensity is taken over 25 minutes.
IntensityWitness ==
  /\ BuiltSeries
  /\ Bins = 3
  /\ call.duration_hr = One
  /\ call.timestep_min = F(25)
  /\ call.depth = F(2)
  /\ RLt(Zero, ret.value.volume_in[3])
  /\ ret.value.intensity_in_hr[3] = RDiv(ret.value.volume_in[3], Q(5, 12))

\* C23: in every series bin i (from 0) has time_min = i * timestep_min; with
\* a start every bin carries timestamp = start + time_min minutes, and
\* without one the series has no timestamp column.
TimeOffsets ==
  BuiltSeries
    => /\ Len(ret.value.time_min) = Bins
       /\ \A i \in 1..Bins : ret.value.time_min[i] = RMul(F(i - 1), call.timestep_min)
       /\ call.start # None
            => /\ ret.value.columns[Len(ret.value.columns)] = "timestamp"
               /\ Len(ret.value.timestamp) = Bins
               /\ \A i \in 1..Bins :
                    ret.value.timestamp[i] = RAdd(call.start[1], ret.value.time_min[i])
       /\ call.start = None
            => /\ \A k \in 1..Len(ret.value.columns) : ret.value.columns[k] # "timestamp"
               /\ ret.value.timestamp = <<>>

\* Three bins of 25 minutes from noon: the offsets are 0, 25, 50 and the
\* last timestamp is 12:50.
TimeOffsetsWitness ==
  /\ BuiltSeries
  /\ call.start = Some(F(720))
  /\ call.timestep_min = F(25)
  /\ ret.value.time_min = <<Zero, F(25), F(50)>>
  /\ ret.value.timestamp = <<F(720), F(745), F(770)>>

\* The curve resampled has at least two values, all of them equal.
OnLevelCurve ==
  /\ ResampleDone
  /\ Len(call.table) >= 2
  /\ \A i \in 1..Len(call.table) : call.table[i] = call.table[1]

\* C24: a curve of at least two values that are all equal, all zero
\* included, raises nothing in _storm_from_table and yields for every
\* n >= 1 the uniform split, depth / n in each of the n bins.
LevelCurveUniform ==
  OnLevelCurve /\ call.n >= 1
    => /\ ret.status = "ok"
       /\ Len(ret.value) = call.n
       /\ \A i \in 1..call.n : ret.value[i] = RDiv(call.depth, F(call.n))

\* The all-zero curve of three values over three bins with depth 2.5: the
\* ramp takes its place and every bin holds 5/6.
LevelCurveWitness ==
  /\ OnLevelCurve
  /\ call.table = <<0, 0, 0>>
  /\ call.n = 3
  /\ call.depth = Q(5, 2)
  /\ ret = Return(<<Q(5, 6), Q(5, 6), Q(5, 6)>>)

\* The numbers of the line the j-th row of the matrix was read from.
NumbersOfRow(j) == Reading(call.lines[DurationLines(call.lines, 0)[j]]).numbers

\* C25: every row of the matrix _parse_noaa_text_to_df returns has as many
\* cells as there are columns: the numbers of its line in the leading
\* cells, the missing marker in the cells beyond them, and the numbers
\* beyond the last column dropped.
RowsFitColumns ==
  ParseDone /\ ret.value # None
    => \A j \in 1..Len(ret.value[1].data) :
         /\ Len(ret.value[1].data[j]) = Len(ret.value[1].columns)
         /\ \A k \in 1..Len(ret.value[1].columns) :
              ret.value[1].data[j][k] =
                IF k <= Len(NumbersOfRow(j)) THEN NumbersOfRow(j)[k] ELSE NaN

\* Four columns, a line of five numbers and a line of one: the fifth number
\* is dropped, and three missing markers follow the 0.9.
RowsFitWitness ==
  /\ ParseDone
  /\ call.lines = <<"by duration for ARI (years): 2 5 10 25",
                    " 2 HR : -1, +2.5e1, .5, 7, 8 ", "60-min: 0.9">>
  /\ ret.value # None
  /\ ret.value[1].data = << <<F(-1), F(25), Q(1, 2), F(7)>>, <<Q(9, 10), NaN, NaN, NaN>> >>

\* C26: every cell of a matrix _parse_noaa_text_to_df returns is a
\* non-negative number or the missing marker, whatever the text.
CellsNonNegative ==
  ParseDone /\ ret.value # None
    => \A j \in 1..Len(ret.value[1].data) :
         \A k \in 1..Len(ret.value[1].data[j]) :
           ~IsFinite(ret.value[1].data[j][k]) \/ RLe(Zero, ret.value[1].data[j][k])

\* What holds in place of C26: a cell is negative only where the number of
\* its line carries a minus sign.
CellsSignedAsRead ==
  ParseDone /\ ret.value # None
    => \A j \in 1..Len(ret.value[1].data) :
         \A k \in 1..Len(ret.value[1].data[j]) :
           \/ ~IsFinite(ret.value[1].data[j][k])
           \/ RLe(Zero, ret.value[1].data[j][k])
           \/ /\ k <= Len(NumbersOfRow(j))
              /\ RLt(NumbersOfRow(j)[k], Zero)
              /\ ret.value[1].data[j][k] = NumbersOfRow(j)[k]

\* The row ' 2 HR : -1, +2.5e1, .5, 7, 8 ' under the years 2 5 10 25: the
\* cell under '2' is -1.
NegativeCellWitness ==
  /\ ParseDone
  /\ call.lines = <<"by duration for ARI (years): 2 5 10 25", " 2 HR : -1, +2.5e1, .5, 7, 8 ">>
  /\ ret.value # None
  /\ ret.value[1].data[1][1] = F(-1)

\* A _label_to_minutes call has ended, and a _nearest_row_index call.
LabelDone == pc = "done" /\ call.fn = "_label_to_minutes"

NearestDone == pc = "done" /\ call.fn = "_nearest_row_index"

\* How each label reads: its number, and "min", "hr" or "day" for its unit,
\* "" when it has no separator before the unit, two hyphens, another unit or
\* no number.
LabelReading(label) ==
  CASE label = "5-min" -> [num |-> F(5), unit |-> "min"]
    [] label = "30 minutes" -> [num |-> F(30), unit |-> "min"]
    [] label = "60-min" -> [num |-> F(60), unit |-> "min"]
    [] label = "2-hr" -> [num |-> F(2), unit |-> "hr"]
    [] label = "2 HR" -> [num |-> F(2), unit |-> "hr"]
    [] label = "6-hr" -> [num |-> F(6), unit |-> "hr"]
    [] label = "100-day" -> [num |-> F(100), unit |-> "day"]
    [] label = "1.5 hour" -> [num |-> Q(3, 2), unit |-> "hr"]
    [] label = "12 - Hours :" -> [num |-> F(12), unit |-> "hr"]
    [] label = "6-hr::" -> [num |-> F(6), unit |-> "hr"]
    [] label = "1-day" -> [num |-> One, unit |-> "day"]
    [] label = "2-day" -> [num |-> F(2), unit |-> "day"]
    [] label = "3 DAYS" -> [num |-> F(3), unit |-> "day"]
    [] OTHER -> [num |-> NaN, unit |-> ""]

\* The minutes a label stands for, the missing marker when it does not parse.
MinutesOfLabel(label) ==
  CASE LabelReading(label).unit = "min" -> LabelReading(label).num
    [] LabelReading(label).unit = "hr" -> RMul(LabelReading(label).num, F(60))
    [] LabelReading(label).unit = "day" -> RMul(LabelReading(label).num, F(1440))
    [] OTHER -> NaN

\* The rows of the index whose label parses.
ParsedRows == {j \in 1..Len(call.index) : IsFinite(MinutesOfLabel(call.index[j]))}

\* C27: _label_to_minutes gives number * 1 for a minute unit, number * 60
\* for an hour unit and number * 1440 for a day unit; _nearest_row_index
\* selects a row whose label does not parse only when no label of the table
\* parses, and then the first row.
MinutesAndUnparsedRows ==
  /\ LabelDone => ret = Return(MinutesOfLabel(call.label))
  /\ NearestDone
       => /\ ret.status = "ok"
          /\ ret.value \in 0..(Len(call.index) - 1)
          /\ ParsedRows # {} => (ret.value + 1) \in ParsedRows
          /\ ParsedRows = {} => ret.value = 0

\* Two rows whose labels do not parse: the first is selected.
UnparsedRowsWitness ==
  /\ NearestDone
  /\ call.index = <<"6hr", "Latitude">>
  /\ ParsedRows = {}
  /\ ret = Return(0)

\* The text has a header line with years.
HasYears ==
  /\ MarkerLines(call.lines) # {}
  /\ Len(Reading(call.lines[HeaderLine(call.lines)]).years) > 0

\* The positions of the lines whose label is a number and a unit, the
\* number directly followed by the unit included.
NumberUnitLines ==
  {k \in 1..Len(call.lines) :
     Reading(call.lines[k]).duration \/ call.lines[k] = "6hr: 1 2 3 4"}

\* C28: a line is a duration row exactly when its label is a number and a
\* minute, hour or day unit, whether a hyphen, a blank or nothing stands
\* between them; and every row label converts to a finite number of minutes.
NumberUnitAccepted ==
  ParseDone /\ HasYears
    => /\ NumberUnitLines = {} <=> ret.value = None
       /\ ret.value # None
            => /\ Len(ret.value[1].index) = Cardinality(NumberUnitLines)
               /\ \A j \in 1..Len(ret.value[1].index) :
                    IsFinite(MinutesOfLabel(ret.value[1].index[j]))

\* What holds in place of C28: the rows are the lines whose label has a
\* hyphen or a blank between number and unit, and their labels convert to a
\* finite number of minutes; a label without one is no duration label.
SeparatedUnitAccepted ==
  /\ ParseDone /\ HasYears
       => /\ Len(DurationLines(call.lines, 0)) = 0 <=> ret.value = None
          /\ ret.value # None
               => /\ Len(ret.value[1].index) = Len(DurationLines(call.lines, 0))
                  /\ \A j \in 1..Len(ret.value[1].index) :
                       IsFinite(MinutesOfLabel(ret.value[1].index[j]))
  /\ LabelDone /\ call.label \in {"6hr", "30min"} => ret = Return(NaN)

\* The header of the service and the line '6hr: 1 2 3 4': the line is not
\* taken for a row and no matrix is returned.
NoSeparatorRejected ==
  /\ ParseDone
  /\ call.lines = <<"by duration for ARI (years): 2 5 10 25", "6hr: 1 2 3 4">>
  /\ HasYears
  /\ ret = Return(None)

\* The call that has ended has the arguments of the remembered one, but
\* perhaps for peak.
SameButPeak == seen # None /\ [seen[1].call EXCEPT !.peak = call.peak] = call

\* C29: the series build_storm returns does not depend on peak: a call that
\* differs from an earlier one in peak alone, None included, yields what the
\* earlier one yielded, for a table, for 'user' and for a Beta preset.
PeakIgnored == BuildDone /\ SameButPeak => ret = seen[1].ret

\* A Beta preset built without a peak and then with peak 5: the same series
\* of three bins, its largest value in the second bin.
PeakIgnoredWitness ==
  /\ BuiltSeries
  /\ SameButPeak
  /\ seen[1].call.peak = None
  /\ call.peak = Some(F(5))
  /\ call.distribution = "huff_q2"
  /\ Bins = 3
  /\ ret = seen[1].ret
  /\ RLt(ret.value.volume_in[3], ret.value.volume_in[2])

\* A _user_pdf call has ended.
UserPdfDone == pc = "done" /\ call.fn = "_user_pdf"

\* The straight line through (x0, y0) and (x1, y1) at g.
LineAt(g, x0, y0, x1, y1) ==
  RAdd(y0, RDiv(RMul(RSub(y1, y0), RSub(g, x0)), RSub(x1, x0)))

\* The curve of each file at the fraction g of the storm, each column
\* divided by its maximum when that exceeds 1 and left as it is otherwise:
\* minutes.csv has its minutes 0, 30, 60 divided by 60 and its depths
\* 0, 1.5, 2 by 2; half.csv, whose times end at 0.5, stays at its last value
\* from there on.
CurveAt(path, g) ==
  CASE path = "ramp.csv" ->
         IF RLe(g, Q(1, 2)) THEN LineAt(g, Zero, Zero, Q(1, 2), Q(1, 4))
         ELSE LineAt(g, Q(1, 2), Q(1, 4), One, One)
    [] path = "minutes.csv" ->
         IF RLe(g, Q(1, 2)) THEN LineAt(g, Zero, Zero, Q(1, 2), Q(3, 4))
         ELSE LineAt(g, Q(1, 2), Q(3, 4), One, One)
    [] path = "dip.csv" ->
         IF RLe(g, Q(1, 2)) THEN LineAt(g, Zero, Zero, Q(1, 2), Q(4, 5))
         ELSE LineAt(g, Q(1, 2), Q(4, 5), One, Q(3, 5))
    [] path = "half.csv" ->
         IF RLe(g, Q(1, 4)) THEN LineAt(g, Zero, Zero, Q(1, 4), Q(1, 4))
         ELSE IF RLe(g, Q(1, 2)) THEN LineAt(g, Q(1, 4), Q(1, 4), Q(1, 2), One)
         ELSE One
    [] OTHER -> Zero

\* The rise of the curve over bin i of n, and over the whole storm.
RiseOver(path, n, i) == RSub(CurveAt(path, Q(i, n)), CurveAt(path, Q(i - 1, n)))

WholeRise(path) == RSub(CurveAt(path, One), CurveAt(path, Zero))

\* C30: _user_pdf yields n values that sum to 1: the rises of the curve,
\* each column normalized by its own maximum when that exceeds 1 and
\* unchanged otherwise, over the n even bins, divided by their sum; and the
\* uniform 1 / n when that sum is not positive.
UserPdfNormalized ==
  UserPdfDone /\ call.path \in DOMAIN FILES
    => /\ ret.status = "ok"
       /\ Len(ret.value) = call.n
       /\ SumTo(ret.value, call.n) = One
       /\ \A i \in 1..call.n :
            ret.value[i] = IF RLe(WholeRise(call.path), Zero) THEN Q(1, call.n)
                           ELSE RDiv(RiseOver(call.path, call.n, i), WholeRise(call.path))

\* minutes.csv over two bins: the columns are divided by 60 and by 2, and
\* the pdf is 3/4, 1/4.
UserPdfWitness ==
  /\ UserPdfDone
  /\ call.path = "minutes.csv"
  /\ call.n = 2
  /\ ret = Return(<<Q(3, 4), Q(1, 4)>>)

=============================================================================
